---- MODULE Spec2Model ----
(***************************************************************************)
(* Three-phase circuit calculator: the Circuito class, the phase-current,  *)
(* load-voltage, line-voltage and line-current solvers, the power solver   *)
(* and the three topology orchestrators.                                   *)
(*                                                                         *)
(* Python's complex numbers are modelled as exact Gaussian rationals       *)
(* <<re, im, d>> = (re + im*j)/d with d > 0 and gcd(re, im, d) = 1, so     *)
(* that equality of values is equality of tuples.  A division by a zero    *)
(* complex raises ZeroDivisionError, as in Python.                         *)
(***************************************************************************)
EXTENDS Integers, Sequences, FiniteSets, TLC

VARIABLES
    circuito,   \* the Circuito object's fields
    op,         \* the operation called last
    ret,        \* what that call returned or raised
    saida,      \* what that call printed: a sequence of <<label, value>>
    antes,      \* the Circuito's fields when that call started
    hist,       \* the conversions that succeeded: <<method, loads before it>>
    correntes_fase,  \* what correnteFaseA/B/C returned, by phase
    correntes_linha, \* what correnteLinhaA/B/C returned, by phase
    objetos,    \* the Circuito objects of the analyses under way
    execucoes,  \* those analyses: orchestrator, position, local variables
    sys_stdout  \* the stream print() writes to: sys.stdout

\* The variables of two analyses under way at once
concorrentes == <<objetos, execucoes, sys_stdout>>

\* The variables a call on the one Circuito leaves alone
demais == <<correntes_fase, correntes_linha, objetos, execucoes, sys_stdout>>

vars == <<circuito, op, ret, saida, antes, hist, correntes_fase, correntes_linha, objetos, execucoes, sys_stdout>>

\* How many successful load conversions one Circuito undergoes.
MaxConv == 2

\* How many entries the console menu rejects before it is given a valid one.
MaxTentativas == 2

\* How many lines a captured function prints at most.
MaxLinhas == 2

\* The largest numerator or denominator of a load impedance a conversion may
\* store: larger values take the currents past 32-bit integers.
MaxNum == 6

----------------------------------------------------------------------------
(* Complex arithmetic *)

Abs(x) == IF x < 0 THEN -x ELSE x

RECURSIVE GCD(_, _)
GCD(a, b) == IF b = 0 THEN a ELSE GCD(b, a % b)

\* (re + im*j)/d with the common factor g taken out and the sign s of d moved
\* to the numerator
Reduz(re, im, d, g, s) == <<(s * re) \div g, (s * im) \div g, (s * d) \div g>>

\* (re + im*j)/d in lowest terms with a positive denominator (d # 0)
Norm(re, im, d) ==
    Reduz(re, im, d, GCD(GCD(Abs(re), Abs(im)), Abs(d)), IF d < 0 THEN -1 ELSE 1)

\* complex(re, im)
C(re, im) == <<re, im, 1>>

Zero == C(0, 0)
One == C(1, 0)

CIsZero(a) == a[1] = 0 /\ a[2] = 0

\* a + b over the common denominator a[3] * ka = b[3] * kb
SomaSobre(a, b, ka, kb) ==
    Norm(a[1] * ka + b[1] * kb, a[2] * ka + b[2] * kb, a[3] * ka)

\* a + b over the least common denominator
CAdd(a, b) == SomaSobre(a, b, b[3] \div GCD(a[3], b[3]), a[3] \div GCD(a[3], b[3]))

CNeg(a) == <<-a[1], -a[2], a[3]>>

CSub(a, b) == CAdd(a, CNeg(b))

\* (a1 + a2*j)/a3 * (b1 + b2*j)/b3
Produto(a1, a2, a3, b1, b2, b3) ==
    Norm(a1 * b1 - a2 * b2, a1 * b2 + a2 * b1, a3 * b3)

\* a * b with ga cancelled between a's numerator and b's denominator and gb
\* between b's numerator and a's denominator
ProdutoReduzido(a, b, ga, gb) ==
    Produto(a[1] \div ga, a[2] \div ga, a[3] \div gb,
            b[1] \div gb, b[2] \div gb, b[3] \div ga)

CMul(a, b) ==
    ProdutoReduzido(a, b, GCD(GCD(Abs(a[1]), Abs(a[2])), b[3]),
                          GCD(GCD(Abs(b[1]), Abs(b[2])), a[3]))

\* d / (g * (x + y*j)) = d * (x - y*j) / (g * (x^2 + y^2)), h cancelled
\* between d and g
Inverso(x, y, d, g, h) ==
    Norm((d \div h) * x, -((d \div h) * y), (g \div h) * (x * x + y * y))

InversoReduzido(b, g) == Inverso(b[1] \div g, b[2] \div g, b[3], g, GCD(b[3], g))

\* 1 / b for b # 0: conj(b) / |b|^2
CInv(b) == InversoReduzido(b, GCD(Abs(b[1]), Abs(b[2])))

\* a / b for b # 0
CDiv(a, b) == CMul(a, CInv(b))

CConj(a) == <<a[1], -a[2], a[3]>>

----------------------------------------------------------------------------
(* What a call gives back: a complex value, a str, None, or an exception *)

Val(v) == [t |-> "complex", e |-> "", v |-> v]
Str(s) == [t |-> "str", e |-> s, v |-> Zero]
None == [t |-> "None", e |-> "", v |-> Zero]
Raise(e) == [t |-> "raise", e |-> e, v |-> Zero]

ZeroDivisionError == Raise("ZeroDivisionError")
TypeError == Raise("TypeError")

IsVal(r) == r.t = "complex"
IsRaise(r) == r.t = "raise"

\* x / y between two results of earlier sub-expressions
Div(x, y) == IF CIsZero(y) THEN ZeroDivisionError ELSE Val(CDiv(x, y))

----------------------------------------------------------------------------
(* class Circuito *)

Circuito(fios, va, vb, vc, za_linha, zb_linha, zc_linha, za_carga, zb_carga, zc_carga, zn) ==
    [fios |-> fios, va |-> va, vb |-> vb, vc |-> vc,
     za_linha |-> za_linha, zb_linha |-> zb_linha, zc_linha |-> zc_linha,
     za_carga |-> za_carga, zb_carga |-> zb_carga, zc_carga |-> zc_carga,
     zn |-> zn]

\* the three load impedances of a Circuito
Cargas(c) == <<c.za_carga, c.zb_carga, c.zc_carga>>

\* Z_total = Z_carga + Z_linha of each phase
ZtotA(c) == CAdd(c.za_carga, c.za_linha)
ZtotB(c) == CAdd(c.zb_carga, c.zb_linha)
ZtotC(c) == CAdd(c.zc_carga, c.zc_linha)

\* va/Ztot_a + vb/Ztot_b + vc/Ztot_c, the numerator of both neutral quantities
SomaCorrentes(c) ==
    CAdd(CAdd(CDiv(c.va, ZtotA(c)), CDiv(c.vb, ZtotB(c))), CDiv(c.vc, ZtotC(c)))

AlgumZtotNulo(c) == CIsZero(ZtotA(c)) \/ CIsZero(ZtotB(c)) \/ CIsZero(ZtotC(c))

\* The denominator with the term of phase C left out
DenominadorIn_sem_fase_C(c) ==
    CAdd(CAdd(One, CDiv(c.zn, ZtotA(c))), CDiv(c.zn, ZtotB(c)))

\* 1 + zn/Ztot_a + zn/Ztot_b + zn/Ztot_c
DenominadorIn(c) ==
    CAdd(CAdd(CAdd(One, CDiv(c.zn, ZtotA(c))), CDiv(c.zn, ZtotB(c))),
         CDiv(c.zn, ZtotC(c)))

\* The denominator with the term of phase C left out
DenominadorVn_sem_fase_C(c) == CAdd(CDiv(One, ZtotA(c)), CDiv(One, ZtotB(c)))

\* 1/Ztot_a + 1/Ztot_b + 1/Ztot_c
DenominadorVn(c) ==
    CAdd(CAdd(CDiv(One, ZtotA(c)), CDiv(One, ZtotB(c))), CDiv(One, ZtotC(c)))

calcula_I_n(c) ==
    IF AlgumZtotNulo(c) THEN ZeroDivisionError
    ELSE Div(SomaCorrentes(c), DenominadorIn(c))

calcula_V_nl_n(c) ==
    IF AlgumZtotNulo(c) THEN ZeroDivisionError
    ELSE Div(SomaCorrentes(c), DenominadorVn(c))

\* za*zb + zb*zc + zc*za over the stored loads
SomaProdutos(c) ==
    CAdd(CAdd(CMul(c.za_carga, c.zb_carga), CMul(c.zb_carga, c.zc_carga)),
         CMul(c.zc_carga, c.za_carga))

SomaCargas(c) == CAdd(CAdd(c.za_carga, c.zb_carga), c.zc_carga)

\* A converteCargaYD that also divides by the sum of the loads
converteCargaYD_ok_soma_nao_nula(c) ==
    /\ ~CIsZero(c.za_carga) /\ ~CIsZero(c.zb_carga) /\ ~CIsZero(c.zc_carga)
    /\ ~CIsZero(SomaCargas(c))

\* converteCargaYD returns (it raises when it divides by a zero load)
converteCargaYD_ok(c) ==
    ~CIsZero(c.za_carga) /\ ~CIsZero(c.zb_carga) /\ ~CIsZero(c.zc_carga)

\* A converteCargaYD whose Z_ab and Z_bc divide by each other's load
converteCargaYD_divisor_trocado(c) ==
    [c EXCEPT !.za_carga = CDiv(SomaProdutos(c), c.za_carga),
              !.zb_carga = CDiv(SomaProdutos(c), c.zc_carga),
              !.zc_carga = CDiv(SomaProdutos(c), c.zb_carga)]

\* The Circuito after converteCargaYD returned: Z_ab, Z_bc and Z_ca are all
\* computed from the stored loads, then stored
converteCargaYD(c) ==
    [c EXCEPT !.za_carga = CDiv(SomaProdutos(c), c.zc_carga),
              !.zb_carga = CDiv(SomaProdutos(c), c.za_carga),
              !.zc_carga = CDiv(SomaProdutos(c), c.zb_carga)]

\* A converteCargaDY that also divides by the load of phase A
converteCargaDY_ok_sem_carga_nula(c) ==
    ~CIsZero(SomaCargas(c)) /\ ~CIsZero(c.za_carga)

\* converteCargaDY returns (it raises when the loads sum to zero)
converteCargaDY_ok(c) == ~CIsZero(SomaCargas(c))

\* Z_b and Z_c of a converteCargaDY that stores each load as soon as it is
\* computed, from the Z_a and the Z_b it has just stored
ZbEmSequencia(c, Z_a) == CDiv(CMul(c.zb_carga, Z_a), SomaCargas(c))
ZcEmSequencia(c, Z_b) == CDiv(CMul(c.zc_carga, Z_b), SomaCargas(c))

converteCargaDY_em_sequencia(c) ==
    [c EXCEPT !.za_carga = CDiv(CMul(c.za_carga, c.zc_carga), SomaCargas(c)),
              !.zb_carga = ZbEmSequencia(c, CDiv(CMul(c.za_carga, c.zc_carga),
                                                 SomaCargas(c))),
              !.zc_carga = ZcEmSequencia(c,
                  ZbEmSequencia(c, CDiv(CMul(c.za_carga, c.zc_carga),
                                        SomaCargas(c))))]

\* The Circuito after converteCargaDY returned: Z_a, Z_b and Z_c are all
\* computed from the stored loads, then stored
converteCargaDY(c) ==
    [c EXCEPT !.za_carga = CDiv(CMul(c.za_carga, c.zc_carga), SomaCargas(c)),
              !.zb_carga = CDiv(CMul(c.zb_carga, c.za_carga), SomaCargas(c)),
              !.zc_carga = CDiv(CMul(c.zc_carga, c.zb_carga), SomaCargas(c))]

\* A converteCargaYD that stores Z_ab as soon as it is computed: the Circuito
\* it leaves when a later division raises
converteCargaYD_falha_parcial(c) ==
    IF CIsZero(c.zc_carga) THEN c
    ELSE [c EXCEPT !.za_carga = CDiv(SomaProdutos(c), c.zc_carga)]

\* The Circuito a conversion leaves when it raises: Z_ab, Z_bc, Z_ca (Z_a,
\* Z_b, Z_c) are locals, and the three assignments to the fields come after
\* the last division
converteCargaYD_falha(c) == c
converteCargaDY_falha(c) == c

----------------------------------------------------------------------------
(* calc_corrente: the phase currents *)

\* The body shared by correnteFaseA/B/C: both neutral quantities are computed
\* first, then the zero test, then the wire-count branch.
correnteFase(fios, zn, fase, v, impedancia_total, I_n, V_nl_n) ==
    IF IsRaise(I_n) THEN I_n
    ELSE IF IsRaise(V_nl_n) THEN V_nl_n
    ELSE IF CIsZero(impedancia_total) THEN Str(fase)
    ELSE IF fios = 3
         THEN Val(CSub(CDiv(v, impedancia_total), CDiv(V_nl_n.v, impedancia_total)))
         ELSE Val(CSub(CDiv(v, impedancia_total),
                       CDiv(CMul(I_n.v, zn), impedancia_total)))

correnteFaseA(c) ==
    correnteFase(c.fios, c.zn, "A", c.va, CAdd(c.za_linha, c.za_carga),
                 calcula_I_n(c), calcula_V_nl_n(c))
correnteFaseB(c) ==
    correnteFase(c.fios, c.zn, "B", c.vb, CAdd(c.zb_linha, c.zb_carga),
                 calcula_I_n(c), calcula_V_nl_n(c))
correnteFaseC(c) ==
    correnteFase(c.fios, c.zn, "C", c.vc, CAdd(c.zc_linha, c.zc_carga),
                 calcula_I_n(c), calcula_V_nl_n(c))

----------------------------------------------------------------------------
(* calc_tensao_carga, calc_tensao_linha_carga, calc_corrente_linha_carga *)

\* x * y and x - y in Python, where x and y are what two calls gave back, x
\* evaluated first: an exception of either propagates, a str operand raises
\* TypeError.
Vezes(x, z) ==
    IF IsRaise(x) THEN x
    ELSE IF ~IsVal(x) THEN TypeError
    ELSE Val(CMul(x.v, z))

Menos(x, y) ==
    IF IsRaise(x) THEN x
    ELSE IF IsRaise(y) THEN y
    ELSE IF ~IsVal(x) \/ ~IsVal(y) THEN TypeError
    ELSE Val(CSub(x.v, y.v))

tensaoCargaZa(c) == Vezes(correnteFaseA(c), c.za_carga)
tensaoCargaZb(c) == Vezes(correnteFaseB(c), c.zb_carga)
tensaoCargaZc(c) == Vezes(correnteFaseC(c), c.zc_carga)

tensaoLinhaZab(c) == Menos(tensaoCargaZa(c), tensaoCargaZb(c))
tensaoLinhaZbc(c) == Menos(tensaoCargaZb(c), tensaoCargaZc(c))
tensaoLinhaZca(c) == Menos(tensaoCargaZc(c), tensaoCargaZa(c))

correnteLinhaA(c) == Menos(correnteFaseA(c), correnteFaseC(c))
correnteLinhaB(c) == Menos(correnteFaseB(c), correnteFaseA(c))
correnteLinhaC(c) == Menos(correnteFaseC(c), correnteFaseB(c))

----------------------------------------------------------------------------
(* calc_potencia *)

\* A real number n/d in lowest terms, d > 0
RReduz(n, d, g, s) == <<(s * n) \div g, (s * d) \div g>>

R(n, d) == RReduz(n, d, GCD(Abs(n), Abs(d)), IF d < 0 THEN -1 ELSE 1)

\* np.real, np.imag
Re(z) == R(z[1], z[3])
Im(z) == R(z[2], z[3])

\* np.abs(z): the modulus of z, kept by the number it is the modulus of (its
\* square (re^2 + im^2)/d^2 is rational, the modulus itself need not be)
NpAbs(z) == [modulo_de |-> z]

\* x + y over the common denominator x[2] * kx = y[2] * ky
RSomaSobre(x, y, kx, ky) == R(x[1] * kx + y[1] * ky, x[2] * kx)

RAdd(x, y) == RSomaSobre(x, y, y[2] \div GCD(x[2], y[2]), x[2] \div GCD(x[2], y[2]))

Sinal(x) == IF x[1] > 0 THEN 1 ELSE IF x[1] < 0 THEN -1 ELSE 0

\* P / |S| between two float64, which raises nothing: nan for 0/0, an infinity
\* for x/0, else the quotient of P by the modulus of S, which has P's sign
FatorPotencia(P, S) ==
    [nan |-> CIsZero(S) /\ P[1] = 0, inf |-> CIsZero(S) /\ P[1] # 0,
     sinal |-> Sinal(P), P |-> P, S_aparente |-> NpAbs(S)]

\* The dictionary with the active power divided by the apparent power of
\* phase A
Resultados_fp_pela_fase_A(S_fases, S_total) ==
    [S_fases |-> S_fases,
     P_fases |-> [i \in 1..3 |-> Re(S_fases[i])],
     Q_fases |-> [i \in 1..3 |-> Im(S_fases[i])],
     S_aparente_fases |-> [i \in 1..3 |-> NpAbs(S_fases[i])],
     S_total |-> S_total,
     P_total |-> Re(S_total),
     Q_total |-> Im(S_total),
     S_aparente_total |-> NpAbs(S_total),
     fp |-> FatorPotencia(Re(S_total), S_fases[1]),
     tipo_fp |-> IF Sinal(Im(S_total)) > 0 THEN "atrasado (indutivo)."
                 ELSE IF Sinal(Im(S_total)) < 0 THEN "adiantado (capacitivo)."
                 ELSE "em fase."]

\* The dictionary with the type decided by the sign of the active power
Resultados_tipo_pela_ativa(S_fases, S_total) ==
    [S_fases |-> S_fases,
     P_fases |-> [i \in 1..3 |-> Re(S_fases[i])],
     Q_fases |-> [i \in 1..3 |-> Im(S_fases[i])],
     S_aparente_fases |-> [i \in 1..3 |-> NpAbs(S_fases[i])],
     S_total |-> S_total,
     P_total |-> Re(S_total),
     Q_total |-> Im(S_total),
     S_aparente_total |-> NpAbs(S_total),
     fp |-> FatorPotencia(Re(S_total), S_total),
     tipo_fp |-> IF Sinal(Re(S_total)) > 0 THEN "atrasado (indutivo)."
                 ELSE IF Sinal(Re(S_total)) < 0 THEN "adiantado (capacitivo)."
                 ELSE "em fase."]

\* The dictionary calculaPotencia returns, from the per-phase and total
\* complex powers
Resultados(S_fases, S_total) ==
    [S_fases |-> S_fases,
     P_fases |-> [i \in 1..3 |-> Re(S_fases[i])],
     Q_fases |-> [i \in 1..3 |-> Im(S_fases[i])],
     S_aparente_fases |-> [i \in 1..3 |-> NpAbs(S_fases[i])],
     S_total |-> S_total,
     P_total |-> Re(S_total),
     Q_total |-> Im(S_total),
     S_aparente_total |-> NpAbs(S_total),
     fp |-> FatorPotencia(Re(S_total), S_total),
     tipo_fp |-> IF Sinal(Im(S_total)) > 0 THEN "atrasado (indutivo)."
                 ELSE IF Sinal(Im(S_total)) < 0 THEN "adiantado (capacitivo)."
                 ELSE "em fase."]

\* sum(S_fases.values()): 0 + S_A + S_B + S_C
SomaFases(S_fases) == CAdd(CAdd(CAdd(Zero, S_fases[1]), S_fases[2]), S_fases[3])

PotenciasFases(S_fases) == Resultados(S_fases, SomaFases(S_fases))

\* The solver with the conjugate taken of the voltage
calculaPotencia_conjuga_tensao(tensoes, correntes) ==
    PotenciasFases([i \in 1..3 |-> CMul(CConj(tensoes[i]), correntes[i])])

calculaPotencia(tensoes, correntes) ==
    PotenciasFases([i \in 1..3 |-> CMul(tensoes[i], CConj(correntes[i]))])

Dict(d) == [t |-> "dict", e |-> "", v |-> d]

\* The lines imprimePotencia prints, by the values it formats
imprimePotencia(resultados) == <<<<"Potências", resultados>>>>

----------------------------------------------------------------------------
(* The orchestrators *)

\* A function body as the sequence of its steps: each evaluates r and then
\* prints linhas.  The first step that raises ends the call with what was
\* printed before it.
Passo(r, linhas) == [r |-> r, linhas |-> linhas]

RECURSIVE Executa(_, _, _)
Executa(passos, k, impresso) ==
    IF k > Len(passos) THEN [ret |-> None, saida |-> impresso]
    ELSE IF IsRaise(passos[k].r) THEN [ret |-> passos[k].r, saida |-> impresso]
    ELSE Executa(passos, k + 1, impresso \o passos[k].linhas)

\* print(f"... {ip(x)}") of a value a call gave back: a str reaches np.abs
\* and raises
Ip(rotulo, x) ==
    Passo(IF IsRaise(x) \/ IsVal(x) THEN x ELSE TypeError, <<<<rotulo, x.v>>>>)

\* calculaPotencia on two tuples already evaluated; np.conj of a str raises
Potencia(tensoes, correntes) ==
    IF \E i \in 1..3 : ~IsVal(tensoes[i]) \/ ~IsVal(correntes[i]) THEN TypeError
    ELSE Dict(calculaPotencia([i \in 1..3 |-> tensoes[i].v],
                              [i \in 1..3 |-> correntes[i].v]))

\* calcula_Y once its tuples correntes and tensoes, the neutral quantity it
\* reports and the three line voltages are evaluated
Relatorio_Y(neutro, Ia, Ib, Ic, Va, Vb, Vc, Vab, Vbc, Vca, potencias) ==
    Executa(
      <<Passo(None, <<<<"Os resultados do circuito estrela são:", Zero>>>>),
        neutro,
        Passo(Ia, <<>>), Passo(Ib, <<>>), Passo(Ic, <<>>),
        Passo(Va, <<>>), Passo(Vb, <<>>), Passo(Vc, <<>>),
        Passo(potencias, <<>>),
        Ip("Ia", Ia), Ip("Ib", Ib), Ip("Ic", Ic),
        Ip("Va'n'", Va), Ip("Vb'n'", Vb), Ip("Vc'n'", Vc),
        Ip("Va'b'", Vab), Ip("Vb'c'", Vbc), Ip("Vc'a'", Vca),
        Passo(None, imprimePotencia(potencias.v))>>,
      1, <<>>)

Potencias_Y(neutro, Ia, Ib, Ic, Va, Vb, Vc, Vab, Vbc, Vca) ==
    Relatorio_Y(neutro, Ia, Ib, Ic, Va, Vb, Vc, Vab, Vbc, Vca,
                Potencia(<<Va, Vb, Vc>>, <<Ia, Ib, Ic>>))

calcula_Y(c) ==
    Potencias_Y(IF c.fios = 3 THEN Ip("Vn'n", calcula_V_nl_n(c))
                              ELSE Ip("In", calcula_I_n(c)),
                correnteFaseA(c), correnteFaseB(c), correnteFaseC(c),
                tensaoCargaZa(c), tensaoCargaZb(c), tensaoCargaZc(c),
                tensaoLinhaZab(c), tensaoLinhaZbc(c), tensaoLinhaZca(c))

\* calcula_D_equilibrado once its three tuples and two dictionaries are
\* evaluated: everything is printed after the last computation
Relatorio_D_equilibrado(Iab, Ibc, Ica, Ia, Ib, Ic, Va, Vb, Vc, potencias_carga, potencias_linha) ==
    Executa(
      <<Passo(Iab, <<>>), Passo(Ibc, <<>>), Passo(Ica, <<>>),
        Passo(Ia, <<>>), Passo(Ib, <<>>), Passo(Ic, <<>>),
        Passo(Va, <<>>), Passo(Vb, <<>>), Passo(Vc, <<>>),
        Passo(potencias_carga, <<>>),
        Passo(potencias_linha,
              <<<<"Os resultados do circuito triângulo equilibrado são:", Zero>>,
                <<"Como a configuração é triangulo, as tensões de linha e de fase são iguais.",
                  Zero>>>>),
        Ip("Va'n'", Va), Ip("Vb'n'", Vb), Ip("Vc'n'", Vc),
        Ip("Ia'b'", Iab), Ip("Ib'c'", Ibc), Ip("Ic'a'", Ica),
        Ip("Ia", Ia), Ip("Ib", Ib), Ip("Ic", Ic),
        Passo(None, <<<<"P carga", Zero>>>> \o imprimePotencia(potencias_carga.v)),
        Passo(None, <<<<"P linha", Zero>>>> \o imprimePotencia(potencias_linha.v))>>,
      1, <<>>)

Potencias_D_equilibrado(Iab, Ibc, Ica, Ia, Ib, Ic, Va, Vb, Vc) ==
    Relatorio_D_equilibrado(Iab, Ibc, Ica, Ia, Ib, Ic, Va, Vb, Vc,
                            Potencia(<<Va, Vb, Vc>>, <<Iab, Ibc, Ica>>),
                            Potencia(<<Va, Vb, Vc>>, <<Ia, Ib, Ic>>))

calcula_D_equilibrado(c) ==
    Potencias_D_equilibrado(correnteFaseA(c), correnteFaseB(c), correnteFaseC(c),
                            correnteLinhaA(c), correnteLinhaB(c), correnteLinhaC(c),
                            tensaoCargaZa(c), tensaoCargaZb(c), tensaoCargaZc(c))

\* x / z in Python, x what an earlier expression gave back
Sobre(x, z) ==
    IF IsRaise(x) THEN x
    ELSE IF ~IsVal(x) THEN TypeError
    ELSE Div(x.v, z)

\* The "P fonte" lines: load totals plus line totals, then |S| and P/|S|
FonteDe(S, P, Q) == [S |-> S, P |-> P, Q |-> Q, S_aparente |-> NpAbs(S),
                     fp |-> FatorPotencia(P, S)]

\* The source power taken as the load totals alone
PotenciaFonte_sem_linha(pc, pl) == FonteDe(pc.S_total, pc.P_total, pc.Q_total)

PotenciaFonte(pc, pl) ==
    FonteDe(CAdd(pc.S_total, pl.S_total), RAdd(pc.P_total, pl.P_total),
            RAdd(pc.Q_total, pl.Q_total))

\* calcula_D_deseq from its line currents on: the Circuito n is already
\* converted, cargaOriginal holds the three loads saved before the conversion
Relatorio_D_deseq(I_a, I_b, I_c, V_al, V_bl, V_cl, V_albl, V_blcl, V_clal, I_ab, I_bc, I_ca, tensoes_linha, potencias_carga, potencias_linha) ==
    Executa(
      <<Passo(I_a, <<>>), Passo(I_b, <<>>), Passo(I_c, <<>>),
        Passo(V_al, <<>>), Passo(V_bl, <<>>), Passo(V_cl, <<>>),
        Passo(V_albl, <<>>), Passo(V_blcl, <<>>), Passo(V_clal, <<>>),
        Passo(I_ab, <<>>), Passo(I_bc, <<>>), Passo(I_ca, <<>>),
        Passo(tensoes_linha[1], <<>>), Passo(tensoes_linha[2], <<>>),
        Passo(tensoes_linha[3], <<>>),
        Passo(potencias_carga, <<>>),
        Passo(potencias_linha,
              <<<<"Os resultados do circuito Triângulo Desequilibrado são:", Zero>>>>),
        Ip("Ia", I_a), Ip("Ib", I_b), Ip("Ic", I_c),
        Ip("Iab", I_ab), Ip("Ibc", I_bc), Ip("Ica", I_ca),
        Ip("Va'b'", V_albl), Ip("Vb'c'", V_blcl), Ip("Vc'a'", V_clal),
        Passo(None, <<<<"P carga", Zero>>>> \o imprimePotencia(potencias_carga.v)),
        Passo(None, <<<<"P linha", Zero>>>> \o imprimePotencia(potencias_linha.v)),
        IF IsRaise(potencias_carga) \/ IsRaise(potencias_linha)
        THEN Passo(None, <<>>)
        ELSE Passo(None, <<<<"P fonte",
                             PotenciaFonte(potencias_carga.v, potencias_linha.v)>>>>)>>,
      1, <<>>)

Potencias_D_deseq(I_a, I_b, I_c, V_al, V_bl, V_cl, V_albl, V_blcl, V_clal, I_ab, I_bc, I_ca, tensoes_linha) ==
    Relatorio_D_deseq(I_a, I_b, I_c, V_al, V_bl, V_cl, V_albl, V_blcl, V_clal,
                      I_ab, I_bc, I_ca, tensoes_linha,
                      Potencia(<<V_albl, V_blcl, V_clal>>, <<I_ab, I_bc, I_ca>>),
                      Potencia(tensoes_linha, <<I_a, I_b, I_c>>))

\* Branch currents with each corner voltage divided by the next branch's load
CorrentesCarga_D_deseq_carga_trocada(cargaOriginal, I_a, I_b, I_c, V_al, V_bl, V_cl, V_albl, V_blcl, V_clal, tensoes_linha) ==
    Potencias_D_deseq(I_a, I_b, I_c, V_al, V_bl, V_cl, V_albl, V_blcl, V_clal,
                      Sobre(V_albl, cargaOriginal[2]),
                      Sobre(V_blcl, cargaOriginal[3]),
                      Sobre(V_clal, cargaOriginal[1]),
                      tensoes_linha)

CorrentesCarga_D_deseq(cargaOriginal, I_a, I_b, I_c, V_al, V_bl, V_cl, V_albl, V_blcl, V_clal, tensoes_linha) ==
    Potencias_D_deseq(I_a, I_b, I_c, V_al, V_bl, V_cl, V_albl, V_blcl, V_clal,
                      Sobre(V_albl, cargaOriginal[1]),
                      Sobre(V_blcl, cargaOriginal[2]),
                      Sobre(V_clal, cargaOriginal[3]),
                      tensoes_linha)

TensoesLinha_D_deseq(cargaOriginal, n, I_a, I_b, I_c, V_al, V_bl, V_cl) ==
    CorrentesCarga_D_deseq(cargaOriginal, I_a, I_b, I_c, V_al, V_bl, V_cl,
                           Menos(V_al, V_bl), Menos(V_bl, V_cl), Menos(V_cl, V_al),
                           <<Vezes(I_a, n.za_linha), Vezes(I_b, n.zb_linha),
                             Vezes(I_c, n.zc_linha)>>)

TensoesFase_D_deseq(cargaOriginal, n, I_a, I_b, I_c) ==
    TensoesLinha_D_deseq(cargaOriginal, n, I_a, I_b, I_c,
                         Menos(Val(n.va), Vezes(I_a, n.za_linha)),
                         Menos(Val(n.vb), Vezes(I_b, n.zb_linha)),
                         Menos(Val(n.vc), Vezes(I_c, n.zc_linha)))

Correntes_D_deseq(cargaOriginal, n) ==
    TensoesFase_D_deseq(cargaOriginal, n,
                        correnteFaseA(n), correnteFaseB(n), correnteFaseC(n))

\* A calcula_D_deseq that saves the three loads after the conversion
calcula_D_deseq_captura_tardia(c) ==
    IF ~converteCargaDY_ok(c)
    THEN [ret |-> ZeroDivisionError, saida |-> <<>>, circuito |-> c]
    ELSE Correntes_D_deseq(Cargas(converteCargaDY(c)), converteCargaDY(c))
           @@ [circuito |-> converteCargaDY(c)]

\* calcula_D_deseq: what it returns or raises, what it prints, and the
\* Circuito it leaves, converted even when a later step raises
calcula_D_deseq(c) ==
    IF ~converteCargaDY_ok(c)
    THEN [ret |-> ZeroDivisionError, saida |-> <<>>, circuito |-> c]
    ELSE Correntes_D_deseq(Cargas(c), converteCargaDY(c))
           @@ [circuito |-> converteCargaDY(c)]

----------------------------------------------------------------------------
(* The circuits analysed *)

j == C(0, 1)

Tensoes == <<C(2, 0), C(-1, 1), C(-1, -1)>>
SemLinha == <<Zero, Zero, Zero>>
ComLinha == <<One, One, One>>

\* The circuits constructed, <<fios, line impedances, zn, load impedances>>:
\* wire counts 3, 4 and one that is neither; a general load; a phase whose
\* load is zero or cancels its line; totals whose reciprocals sum to j or to
\* 0 (resonant); loads that sum to zero
Casos ==
    {<<3, SemLinha, Zero, <<One, j, C(0, -1)>>>>,
     <<3, ComLinha, j, <<One, j, C(0, -1)>>>>,
     <<4, SemLinha, Zero, <<One, j, C(0, -1)>>>>,
     <<4, SemLinha, j, <<One, j, C(0, -1)>>>>,
     <<4, ComLinha, j, <<One, j, C(0, -1)>>>>,
     <<5, SemLinha, j, <<One, j, C(0, -1)>>>>,
     <<5, ComLinha, Zero, <<One, j, C(0, -1)>>>>,
     <<3, SemLinha, Zero, <<Zero, One, j>>>>,
     <<4, ComLinha, j, <<C(-1, 0), One, j>>>>,
     <<3, SemLinha, Zero, <<C(0, -1), j, C(0, -1)>>>>,
     <<3, SemLinha, j, <<C(0, -1), j, C(0, -1)>>>>,
     <<4, SemLinha, j, <<C(0, 2), C(0, 2), C(0, -1)>>>>,
     <<3, SemLinha, Zero, <<One, j, C(-1, -1)>>>>}

Inicio ==
    /\ op = "__init__"
    /\ ret = None
    /\ saida = <<>>
    /\ antes = circuito
    /\ hist = <<>>

\* The standard output the process starts with
Terminal == 0

\* No analyses under way
SemExecucoes ==
    /\ objetos = <<>>
    /\ execucoes = <<>>
    /\ sys_stdout = Terminal

\* Nothing else under way
Parado ==
    /\ correntes_fase = <<>>
    /\ correntes_linha = <<>>
    /\ SemExecucoes

Init ==
    /\ \E caso \in Casos :
          circuito = Circuito(caso[1], Tensoes[1], Tensoes[2], Tensoes[3],
                              caso[2][1], caso[2][2], caso[2][3],
                              caso[4][1], caso[4][2], caso[4][3], caso[3])
    /\ Inicio
    /\ Parado

\* A call that reads the Circuito and returns r
Consulta(nome, r) ==
    /\ op' = nome
    /\ ret' = r
    /\ saida' = <<>>
    /\ antes' = circuito
    /\ UNCHANGED <<circuito, hist, demais>>

Calcula_I_n == Consulta("calcula_I_n", calcula_I_n(circuito))
Calcula_V_nl_n == Consulta("calcula_V_nl_n", calcula_V_nl_n(circuito))

Pequeno(z) == Abs(z[1]) <= MaxNum /\ Abs(z[2]) <= MaxNum /\ z[3] <= MaxNum

CargasPequenas(c) == \A i \in 1..3 : Pequeno(Cargas(c)[i])

\* A call of a conversion method
Conversao(nome, ok, novo, falho) ==
    /\ op' = nome
    /\ saida' = <<>>
    /\ antes' = circuito
    /\ IF ok
       THEN /\ Len(hist) < MaxConv
            /\ CargasPequenas(novo)
            /\ circuito' = novo
            /\ ret' = None
            /\ hist' = Append(hist, <<nome, Cargas(circuito)>>)
       ELSE /\ ret' = ZeroDivisionError
            /\ circuito' = falho
            /\ UNCHANGED hist
    /\ UNCHANGED demais

ConverteCargaYD ==
    Conversao("converteCargaYD", converteCargaYD_ok(circuito),
              converteCargaYD(circuito), converteCargaYD_falha(circuito))

ConverteCargaDY ==
    Conversao("converteCargaDY", converteCargaDY_ok(circuito),
              converteCargaDY(circuito), converteCargaDY_falha(circuito))

CorrenteFaseA == Consulta("correnteFaseA", correnteFaseA(circuito))
CorrenteFaseB == Consulta("correnteFaseB", correnteFaseB(circuito))
CorrenteFaseC == Consulta("correnteFaseC", correnteFaseC(circuito))

TensaoCargaZa == Consulta("tensaoCargaZa", tensaoCargaZa(circuito))
TensaoCargaZb == Consulta("tensaoCargaZb", tensaoCargaZb(circuito))
TensaoCargaZc == Consulta("tensaoCargaZc", tensaoCargaZc(circuito))

TensaoLinhaZab == Consulta("tensaoLinhaZab", tensaoLinhaZab(circuito))
TensaoLinhaZbc == Consulta("tensaoLinhaZbc", tensaoLinhaZbc(circuito))
TensaoLinhaZca == Consulta("tensaoLinhaZca", tensaoLinhaZca(circuito))

CorrenteLinhaA == Consulta("correnteLinhaA", correnteLinhaA(circuito))
CorrenteLinhaB == Consulta("correnteLinhaB", correnteLinhaB(circuito))
CorrenteLinhaC == Consulta("correnteLinhaC", correnteLinhaC(circuito))

\* The current triples the power solver is called on directly, with the
\* source voltages of the Circuito as tensoes
CorrentesPotencia ==
    {<<One, j, C(0, -1)>>,
     <<Zero, Zero, Zero>>}

CalculaPotencia ==
    \E correntes \in CorrentesPotencia :
        Consulta("calculaPotencia",
                 Dict(calculaPotencia(<<circuito.va, circuito.vb, circuito.vc>>,
                                      correntes)))

\* A call of an orchestrator that leaves the Circuito alone
Orquestra(nome, r) ==
    \E feito \in {r} :
        /\ op' = nome
        /\ ret' = feito.ret
        /\ saida' = feito.saida
        /\ antes' = circuito
        /\ UNCHANGED <<circuito, hist, demais>>

\* A calcula_Y that converts the stored loads in place before it computes,
\* the way calcula_D_deseq does
Calcula_Y_convertendo ==
    /\ converteCargaYD_ok(circuito)
    /\ CargasPequenas(converteCargaYD(circuito))
    /\ op' = "calcula_Y"
    /\ ret' = calcula_Y(converteCargaYD(circuito)).ret
    /\ saida' = calcula_Y(converteCargaYD(circuito)).saida
    /\ antes' = circuito
    /\ circuito' = converteCargaYD(circuito)
    /\ UNCHANGED <<hist, demais>>

Calcula_Y == Orquestra("calcula_Y", calcula_Y(circuito))

Calcula_D_equilibrado ==
    Orquestra("calcula_D_equilibrado", calcula_D_equilibrado(circuito))

\* calcula_D_deseq with what it gives, r, evaluated
Efeito_D_deseq(r) ==
    \E feito \in {r} :
        /\ op' = "calcula_D_deseq"
        /\ antes' = circuito
        /\ IF converteCargaDY_ok(circuito)
           THEN /\ Len(hist) < MaxConv
                /\ CargasPequenas(feito.circuito)
                /\ hist' = Append(hist, <<"converteCargaDY", Cargas(circuito)>>)
           ELSE UNCHANGED hist
        /\ circuito' = feito.circuito
        /\ ret' = feito.ret
        /\ saida' = feito.saida
        /\ UNCHANGED demais

Calcula_D_deseq == Efeito_D_deseq(calcula_D_deseq(circuito))

Next ==
    \/ Calcula_I_n
    \/ Calcula_V_nl_n
    \/ ConverteCargaYD
    \/ ConverteCargaDY
    \/ CorrenteFaseA
    \/ CorrenteFaseB
    \/ CorrenteFaseC
    \/ TensaoCargaZa
    \/ TensaoCargaZb
    \/ TensaoCargaZc
    \/ TensaoLinhaZab
    \/ TensaoLinhaZbc
    \/ TensaoLinhaZca
    \/ CorrenteLinhaA
    \/ CorrenteLinhaB
    \/ CorrenteLinhaC
    \/ CalculaPotencia
    \/ Calcula_Y
    \/ Calcula_D_equilibrado
    \/ Calcula_D_deseq

Spec == Init /\ [][Next]_vars

----------------------------------------------------------------------------
(* The two conversions alone, on every load triple of a grid *)

\* Real and imaginary parts of the loads converted: -MaxCoord..MaxCoord
MaxCoord == 1

Grade == {C(x, y) : x \in -MaxCoord..MaxCoord, y \in -MaxCoord..MaxCoord}

InitConversao ==
    /\ \E za \in Grade, zb \in Grade, zc \in Grade :
          circuito = Circuito(3, Tensoes[1], Tensoes[2], Tensoes[3],
                              Zero, Zero, Zero, za, zb, zc, Zero)
    /\ Inicio
    /\ Parado

NextConversao ==
    \/ ConverteCargaYD
    \/ ConverteCargaDY

SpecConversao == InitConversao /\ [][NextConversao]_vars

----------------------------------------------------------------------------
(* The line currents in floating point *)

\* A Python float is a binary fraction of 53 significant bits, and every
\* arithmetic operation returns the float nearest to the exact result, ties
\* to the even significand.  Here a float has MantBits significant bits; it
\* is kept as the exact fraction <<n, d>> it stands for, and a complex is a
\* pair <<re, im>> of floats.
MantBits == 3

\* The binary exponents of the phase currents taken: 0..MaxExp
MaxExp == 1

RNeg(x) == <<-x[1], x[2]>>
RSub(x, y) == RAdd(x, RNeg(y))
RAbs(x) == <<Abs(x[1]), x[2]>>
RLeq(x, y) == x[1] * y[2] <= y[1] * x[2]

\* n/d (n >= 0, d > 0) towards zero
Trunca(n, d) == n \div d

\* n/d (n >= 0, d > 0) to the nearest integer, ties to even
MaisProximo(n, d) ==
    IF 2 * (n % d) > d THEN (n \div d) + 1
    ELSE IF 2 * (n % d) < d THEN n \div d
    ELSE (n \div d) + ((n \div d) % 2)

\* The significand m and the exponent k as the float m * 2^k
Escala(m, k) == IF k >= 0 THEN R(m * 2^k, 1) ELSE R(m, 2^(-k))

\* The float nearest to (n/d) * 2^k, n > 0: the fraction is scaled until its
\* integer part has MantBits bits
RECURSIVE ArredondaPositivo(_, _, _)
ArredondaPositivo(n, d, k) ==
    IF n >= d * 2^MantBits THEN ArredondaPositivo(n, 2 * d, k + 1)
    ELSE IF n < d * 2^(MantBits - 1) THEN ArredondaPositivo(2 * n, d, k - 1)
    ELSE Escala(MaisProximo(n, d), k)

\* The same, towards zero
RECURSIVE TruncaPositivo(_, _, _)
TruncaPositivo(n, d, k) ==
    IF n >= d * 2^MantBits THEN TruncaPositivo(n, 2 * d, k + 1)
    ELSE IF n < d * 2^(MantBits - 1) THEN TruncaPositivo(2 * n, d, k - 1)
    ELSE Escala(Trunca(n, d), k)

\* A subtraction that chops the exact difference instead of rounding it
FSub_truncada(x, y) ==
    IF RSub(x, y)[1] = 0 THEN RSub(x, y)
    ELSE IF RSub(x, y)[1] > 0 THEN TruncaPositivo(RSub(x, y)[1], RSub(x, y)[2], 0)
    ELSE RNeg(TruncaPositivo(-RSub(x, y)[1], RSub(x, y)[2], 0))

\* float - float: the float nearest to the exact difference
FSub(x, y) ==
    IF RSub(x, y)[1] = 0 THEN RSub(x, y)
    ELSE IF RSub(x, y)[1] > 0 THEN ArredondaPositivo(RSub(x, y)[1], RSub(x, y)[2], 0)
    ELSE RNeg(ArredondaPositivo(-RSub(x, y)[1], RSub(x, y)[2], 0))

\* complex - complex: the parts are subtracted separately
FCSub(a, b) == <<FSub(a[1], b[1]), FSub(a[2], b[2])>>

\* correnteLinhaA/B/C on the three phase currents I = <<I_AB, I_BC, I_CA>>
\* that correnteFaseA/B/C returned
correnteLinhaA_float(I) == FCSub(I[1], I[3])
correnteLinhaB_float(I) == FCSub(I[2], I[1])
correnteLinhaC_float(I) == FCSub(I[3], I[2])

\* The floats of exponents 0..MaxExp, of either sign
Flutuantes ==
    {Escala(sinal * m, k) : sinal \in {-1, 1},
                            m \in 2^(MantBits - 1)..(2^MantBits - 1),
                            k \in 0..MaxExp}

\* The positive ones of exponent 0
FlutuantesUnitarios ==
    {Escala(m, 0) : m \in 2^(MantBits - 1)..(2^MantBits - 1)}

\* The imaginary parts of the three phase currents
Imaginarias ==
    {<<R(0, 1), R(0, 1), R(0, 1)>>,
     <<Escala(2^MantBits - 1, MaxExp), Escala(-2^(MantBits - 1), 0),
       Escala(-(2^MantBits - 1), 0)>>}

\* A line current not computed yet
Pendente == <<>>

InitFloat ==
    /\ circuito = Circuito(3, Tensoes[1], Tensoes[2], Tensoes[3],
                           Zero, Zero, Zero, One, One, One, Zero)
    /\ Inicio
    /\ \E ab \in Flutuantes, bc \in Flutuantes, ca \in FlutuantesUnitarios,
          im \in Imaginarias :
          correntes_fase = <<<<ab, im[1]>>, <<bc, im[2]>>, <<ca, im[3]>>>>
    /\ correntes_linha = <<Pendente, Pendente, Pendente>>
    /\ SemExecucoes

\* A call of a line-current function on the phase currents
ConsultaFloat(nome, fase, I) ==
    /\ op' = nome
    /\ correntes_linha' = [correntes_linha EXCEPT ![fase] = I]
    /\ UNCHANGED <<circuito, ret, saida, antes, hist, correntes_fase, concorrentes>>

CorrenteLinhaA_float ==
    ConsultaFloat("correnteLinhaA", 1, correnteLinhaA_float(correntes_fase))

CorrenteLinhaB_float ==
    ConsultaFloat("correnteLinhaB", 2, correnteLinhaB_float(correntes_fase))

CorrenteLinhaC_float ==
    ConsultaFloat("correnteLinhaC", 3, correnteLinhaC_float(correntes_fase))

NextFloat ==
    \/ CorrenteLinhaA_float
    \/ CorrenteLinhaB_float
    \/ CorrenteLinhaC_float

SpecFloat == InitFloat /\ [][NextFloat]_vars

----------------------------------------------------------------------------
(* Balanced circuits *)

\* Three voltages of equal magnitude 120 degrees apart are v, w*v and w*w*v
\* with w = -1/2 + j*sqrt(3)/2, which no complex with rational parts is.  The
\* solvers are therefore taken here over the numbers (a + b*w)/d, kept as
\* <<a, b, d>> in lowest terms: they are complex numbers, closed under the
\* four operations, with w*w = -1 - w.  Sums, differences, Zero and One are
\* those of the tuples above; products and quotients are not.
Omega == <<0, 1, 1>>
Omega2 == <<-1, -1, 1>>

\* (a1 + a2*w)/a3 * (b1 + b2*w)/b3
ProdutoOmega(a1, a2, a3, b1, b2, b3) ==
    Norm(a1 * b1 - a2 * b2, a1 * b2 + a2 * b1 - a2 * b2, a3 * b3)

MulOmega(a, b) == ProdutoOmega(a[1], a[2], a[3], b[1], b[2], b[3])

\* 1 / b for b # 0: conj(b) / |b|^2, with conj(x + y*w) = (x - y) - y*w and
\* |x + y*w|^2 = x^2 - x*y + y^2
InvOmega(b) ==
    Norm(b[3] * (b[1] - b[2]), -(b[3] * b[2]),
         b[1] * b[1] - b[1] * b[2] + b[2] * b[2])

DivOmega(a, b) == MulOmega(a, InvOmega(b))

\* x / y between two results of earlier sub-expressions
Div_omega(x, y) == IF CIsZero(y) THEN ZeroDivisionError ELSE Val(DivOmega(x, y))

\* The numerator with the term of phase C left out
SomaCorrentes_sem_fase_C(c) ==
    CAdd(DivOmega(c.va, ZtotA(c)), DivOmega(c.vb, ZtotB(c)))

SomaCorrentes_omega(c) ==
    CAdd(CAdd(DivOmega(c.va, ZtotA(c)), DivOmega(c.vb, ZtotB(c))),
         DivOmega(c.vc, ZtotC(c)))

DenominadorIn_omega(c) ==
    CAdd(CAdd(CAdd(One, DivOmega(c.zn, ZtotA(c))), DivOmega(c.zn, ZtotB(c))),
         DivOmega(c.zn, ZtotC(c)))

DenominadorVn_omega(c) ==
    CAdd(CAdd(DivOmega(One, ZtotA(c)), DivOmega(One, ZtotB(c))),
         DivOmega(One, ZtotC(c)))

calcula_I_n_omega(c) ==
    IF AlgumZtotNulo(c) THEN ZeroDivisionError
    ELSE Div_omega(SomaCorrentes_omega(c), DenominadorIn_omega(c))

calcula_V_nl_n_omega(c) ==
    IF AlgumZtotNulo(c) THEN ZeroDivisionError
    ELSE Div_omega(SomaCorrentes_omega(c), DenominadorVn_omega(c))

correnteFase_omega(fios, zn, nome, v, impedancia_total, I_n, V_nl_n) ==
    IF IsRaise(I_n) THEN I_n
    ELSE IF IsRaise(V_nl_n) THEN V_nl_n
    ELSE IF CIsZero(impedancia_total) THEN Str(nome)
    ELSE IF fios = 3
         THEN Val(CSub(DivOmega(v, impedancia_total),
                       DivOmega(V_nl_n.v, impedancia_total)))
         ELSE Val(CSub(DivOmega(v, impedancia_total),
                       DivOmega(MulOmega(I_n.v, zn), impedancia_total)))

correnteFaseA_omega(c) ==
    correnteFase_omega(c.fios, c.zn, "A", c.va, CAdd(c.za_linha, c.za_carga),
                       calcula_I_n_omega(c), calcula_V_nl_n_omega(c))
correnteFaseB_omega(c) ==
    correnteFase_omega(c.fios, c.zn, "B", c.vb, CAdd(c.zb_linha, c.zb_carga),
                       calcula_I_n_omega(c), calcula_V_nl_n_omega(c))
correnteFaseC_omega(c) ==
    correnteFase_omega(c.fios, c.zn, "C", c.vc, CAdd(c.zc_linha, c.zc_carga),
                       calcula_I_n_omega(c), calcula_V_nl_n_omega(c))

\* The line current of A taken from the branches AB and BC
correnteLinhaA_ramo_trocado(c) == Menos(correnteFaseA_omega(c), correnteFaseB_omega(c))

correnteLinhaA_omega(c) == Menos(correnteFaseA_omega(c), correnteFaseC_omega(c))
correnteLinhaB_omega(c) == Menos(correnteFaseB_omega(c), correnteFaseA_omega(c))
correnteLinhaC_omega(c) == Menos(correnteFaseC_omega(c), correnteFaseB_omega(c))

\* The voltage of phase A, and what vb and vc are of it: the two balanced
\* sequences, and an unbalanced source
FonteA == <<2, 1, 1>>
Sequencias == {<<Omega2, Omega>>, <<Omega, Omega2>>, <<Omega2, C(2, 0)>>}

\* The impedance of the three lines
Linhas == {Zero, One}

\* The loads: three equal ones, or the middle one different
CargasOmega ==
    {<<z, z, z>> : z \in {Zero, One, Omega, C(1, 1), C(-1, 1)}}
    \cup {<<One, C(1, 1), One>>}

\* The place of what a function not called yet gives back
NaoChamada == [t |-> "pendente", e |-> "", v |-> Zero]

\* The wire counts and neutral impedances
Neutros == {<<3, Zero>>, <<4, Zero>>, <<4, Omega>>}

InitEquilibrado ==
    /\ \E neutro \in Neutros, seq \in Sequencias, zl \in Linhas, Z \in CargasOmega :
          circuito = Circuito(neutro[1], FonteA, MulOmega(seq[1], FonteA),
                              MulOmega(seq[2], FonteA),
                              zl, zl, zl, Z[1], Z[2], Z[3], neutro[2])
    /\ Inicio
    /\ correntes_fase = <<NaoChamada, NaoChamada, NaoChamada>>
    /\ correntes_linha = <<>>
    /\ SemExecucoes

\* A call of a phase-current function; what it gave back is kept
ConsultaFase(i, r) ==
    /\ correntes_fase' = [correntes_fase EXCEPT ![i] = r]
    /\ UNCHANGED <<circuito, op, ret, saida, antes, hist, correntes_linha, concorrentes>>

Calcula_I_n_omega == Consulta("calcula_I_n", calcula_I_n_omega(circuito))

CorrenteFaseA_omega == ConsultaFase(1, correnteFaseA_omega(circuito))
CorrenteFaseB_omega == ConsultaFase(2, correnteFaseB_omega(circuito))
CorrenteFaseC_omega == ConsultaFase(3, correnteFaseC_omega(circuito))

CorrenteLinhaA_omega == Consulta("correnteLinhaA", correnteLinhaA_omega(circuito))
CorrenteLinhaB_omega == Consulta("correnteLinhaB", correnteLinhaB_omega(circuito))
CorrenteLinhaC_omega == Consulta("correnteLinhaC", correnteLinhaC_omega(circuito))

NextEquilibrado ==
    \/ Calcula_I_n_omega
    \/ CorrenteFaseA_omega
    \/ CorrenteFaseB_omega
    \/ CorrenteFaseC_omega
    \/ CorrenteLinhaA_omega
    \/ CorrenteLinhaB_omega
    \/ CorrenteLinhaC_omega

SpecEquilibrado == InitEquilibrado /\ [][NextEquilibrado]_vars

----------------------------------------------------------------------------
(* Two analyses under way at once *)

\* Each analysis is a call of an orchestrator on the Circuito built for it
\* (painel.py builds one per click, main.py one per run).  A step of an
\* analysis is a group of statements of the orchestrator that read or write
\* the Circuito; the steps of the two analyses interleave in any order.
Execucoes == {1, 2}

\* Both analyses on the Circuito of the first
Objeto_unico(r) == 1

\* The Circuito object analysis r was given
Objeto(r) == r

\* The circuits given
CircuitosDados ==
    {Circuito(3, Tensoes[1], Tensoes[2], Tensoes[3], Zero, Zero, Zero,
              One, j, C(0, -1), Zero),
     Circuito(3, Tensoes[1], Tensoes[2], Tensoes[3], One, One, One,
              C(0, 2), One, j, Zero)}

\* A circuit whose loads sum to zero: converteCargaDY raises on it
CircuitoSemEstrela ==
    Circuito(3, Tensoes[1], Tensoes[2], Tensoes[3], Zero, Zero, Zero,
             One, j, C(-1, -1), Zero)

Orquestradores == {"calcula_Y", "calcula_D_equilibrado", "calcula_D_deseq"}

Execucao(tipo, c) ==
    [tipo |-> tipo, pc |-> "inicio", inicial |-> c,
     cargaOriginal |-> <<>>, correntes |-> <<>>,
     ret |-> None, saida |-> <<>>, entre |-> FALSE]

InitConcorrente ==
    /\ circuito = Circuito(3, Tensoes[1], Tensoes[2], Tensoes[3],
                           Zero, Zero, Zero, One, One, One, Zero)
    /\ Inicio
    /\ correntes_fase = <<>>
    /\ correntes_linha = <<>>
    /\ \E c1 \in CircuitosDados, c2 \in CircuitosDados \cup {CircuitoSemEstrela},
          t1 \in Orquestradores, t2 \in Orquestradores :
          /\ objetos = <<c1, c2>>
          /\ execucoes = <<Execucao(t1, c1), Execucao(t2, c2)>>
    /\ sys_stdout = Terminal

\* The other analysis is between its first and its last step
OutraNoMeio(r) == execucoes[3 - r].pc \notin {"inicio", "fim"}

\* Analysis r goes on to pc with the local variables e, its Circuito now c
Avanca(r, pc, e, c) ==
    /\ execucoes' = [execucoes EXCEPT
                       ![r] = [e EXCEPT !.pc = pc,
                                        !.entre = e.entre \/ OutraNoMeio(r)]]
    /\ objetos' = [objetos EXCEPT ![Objeto(r)] = c]
    /\ UNCHANGED <<circuito, op, ret, saida, antes, hist, correntes_fase, correntes_linha, sys_stdout>>

\* Analysis r ends with what its orchestrator gave
Termina(r, feito) ==
    \E f \in {feito} :
        Avanca(r, "fim", [execucoes[r] EXCEPT !.ret = f.ret, !.saida = f.saida],
               objetos[Objeto(r)])

\* calcula_D_deseq, lines 66-68: the three loads are read
SalvaCargas(r) ==
    /\ execucoes[r].tipo = "calcula_D_deseq"
    /\ execucoes[r].pc = "inicio"
    /\ Avanca(r, "salvo",
              [execucoes[r] EXCEPT !.cargaOriginal = Cargas(objetos[Objeto(r)])],
              objetos[Objeto(r)])

\* calcula_D_deseq, line 71: circuito.converteCargaDY()
Converte(r) ==
    /\ execucoes[r].tipo = "calcula_D_deseq"
    /\ execucoes[r].pc = "salvo"
    /\ IF converteCargaDY_ok(objetos[Objeto(r)])
       THEN Avanca(r, "convertido", execucoes[r], converteCargaDY(objetos[Objeto(r)]))
       ELSE Termina(r, [ret |-> ZeroDivisionError, saida |-> <<>>])

\* The three phase currents are computed from the Circuito: lines 74-76 of
\* calcula_D_deseq, and the first tuple of calcula_Y and calcula_D_equilibrado
CalculaCorrentes(r) ==
    /\ execucoes[r].pc = IF execucoes[r].tipo = "calcula_D_deseq"
                         THEN "convertido" ELSE "inicio"
    /\ Avanca(r, "correntes",
              [execucoes[r] EXCEPT
                 !.correntes = <<correnteFaseA(objetos[Objeto(r)]),
                                 correnteFaseB(objetos[Objeto(r)]),
                                 correnteFaseC(objetos[Objeto(r)])>>],
              objetos[Objeto(r)])

\* The rest of the orchestrator of e on the Circuito c: the voltages, the
\* powers and the report
Resto(e, c) ==
    IF e.tipo = "calcula_D_deseq"
    THEN TensoesFase_D_deseq(e.cargaOriginal, c,
                             e.correntes[1], e.correntes[2], e.correntes[3])
    ELSE IF e.tipo = "calcula_Y"
    THEN Potencias_Y(IF c.fios = 3 THEN Ip("Vn'n", calcula_V_nl_n(c))
                                   ELSE Ip("In", calcula_I_n(c)),
                     e.correntes[1], e.correntes[2], e.correntes[3],
                     tensaoCargaZa(c), tensaoCargaZb(c), tensaoCargaZc(c),
                     tensaoLinhaZab(c), tensaoLinhaZbc(c), tensaoLinhaZca(c))
    ELSE Potencias_D_equilibrado(e.correntes[1], e.correntes[2], e.correntes[3],
                                 correnteLinhaA(c), correnteLinhaB(c), correnteLinhaC(c),
                                 tensaoCargaZa(c), tensaoCargaZb(c), tensaoCargaZc(c))

Conclui(r) ==
    /\ execucoes[r].pc = "correntes"
    /\ Termina(r, Resto(execucoes[r], objetos[Objeto(r)]))

NextConcorrente ==
    \E r \in Execucoes :
        \/ SalvaCargas(r)
        \/ Converte(r)
        \/ CalculaCorrentes(r)
        \/ Conclui(r)

SpecConcorrente == InitConcorrente /\ [][NextConcorrente]_vars

----------------------------------------------------------------------------
(* The front ends: the console menu and the form *)

\* cv.polar_to_rect(r, 0): deg2rad(0) is 0, exp(0j) is 1 + 0j, and r times
\* it is r + 0j. 0 is the angle every field of the form starts with, and the
\* one whose cosine and sine are exact.
polar_to_rect(r, angulo) == C(r, 0)

\* complex(real, imag) of two number fields
complex(real, imag) == C(real, imag)

\* The three analyses of the selectbox, in the order of the menu
TiposDeCircuito == <<"Y (estrela)", "triangulo equilibrado", "triangulo desequilibrado">>

\* int(texto) of a line typed at the menu; 0 stands for the ValueError
int(texto) ==
    CASE texto = "1" -> 1
      [] texto = "2" -> 2
      [] texto = "3" -> 3
      [] texto = "4" -> 4
      [] texto = "-1" -> -1
      [] OTHER -> 0

\* Lines typed at the menu that int() rejects or that are not an option
LinhasRecusadas == {"4", "-1", "abc", ""}

\* What the form holds when Calcular is pressed: the analysis selected, the
\* moduli of the three voltages (their angles left at 0), and <<real, imag>>
\* of the line impedance of the three phases, of each load and of the neutral.
\* Every field starts at 0.0.
EntradasDoPainel ==
    [tipo_circuito : {TiposDeCircuito[i] : i \in 1..3},
     modulos : {<<0, 0, 0>>, <<2, -1, -1>>},
     linha : {<<0, 0>>, <<1, 0>>},
     cargas : {<<<<0, 0>>, <<0, 0>>, <<0, 0>>>>,
               <<<<1, 0>>, <<1, 0>>, <<1, 0>>>>,
               <<<<1, 0>>, <<0, 1>>, <<0, -1>>>>,
               <<<<1, 0>>, <<0, 1>>, <<-1, -1>>>>},
     neutro : {<<0, 0>>, <<0, 1>>}]

\* The Circuito the form builds
CircuitoDoPainel_fios_pelo_neutro(e) ==
    Circuito(IF e.neutro = <<0, 0>> THEN 3 ELSE 4,
             polar_to_rect(e.modulos[1], 0),
             polar_to_rect(e.modulos[2], 0),
             polar_to_rect(e.modulos[3], 0),
             complex(e.linha[1], e.linha[2]),
             complex(e.linha[1], e.linha[2]),
             complex(e.linha[1], e.linha[2]),
             complex(e.cargas[1][1], e.cargas[1][2]),
             complex(e.cargas[2][1], e.cargas[2][2]),
             complex(e.cargas[3][1], e.cargas[3][2]),
             complex(e.neutro[1], e.neutro[2]))

CircuitoDoPainel(e) ==
    Circuito(3,
             polar_to_rect(e.modulos[1], 0),
             polar_to_rect(e.modulos[2], 0),
             polar_to_rect(e.modulos[3], 0),
             complex(e.linha[1], e.linha[2]),
             complex(e.linha[1], e.linha[2]),
             complex(e.linha[1], e.linha[2]),
             complex(e.cargas[1][1], e.cargas[1][2]),
             complex(e.cargas[2][1], e.cargas[2][2]),
             complex(e.cargas[3][1], e.cargas[3][2]),
             complex(e.neutro[1], e.neutro[2]))

\* The Circuito main() builds: three wires, three source voltages that sum
\* to zero, equal line impedances, three different loads, zn = 0. The
\* voltages and impedances are small exact numbers in place of 127 V at 10,
\* -110 and 130 degrees, 0.16 + 0.24j, 15 + 7j, 20 + 10j and 18 + 8j.
CircuitoDeMain ==
    Circuito(3, Tensoes[1], Tensoes[2], Tensoes[3],
             One, One, One, One, j, C(0, -1), Zero)

\* The orchestrator the selection calls on the Circuito built, what it
\* returns or raises, what it prints and the Circuito it leaves
Despacha(escolha, c) ==
    IF escolha = 1 THEN calcula_Y(c) @@ [circuito |-> c, op |-> "calcula_Y"]
    ELSE IF escolha = 2
    THEN calcula_D_equilibrado(c) @@ [circuito |-> c, op |-> "calcula_D_equilibrado"]
    ELSE calcula_D_deseq(c) @@ [op |-> "calcula_D_deseq"]

\* The position of the selection among the three analyses
Escolha(tipo_circuito) ==
    IF tipo_circuito = TiposDeCircuito[1] THEN 1
    ELSE IF tipo_circuito = TiposDeCircuito[2] THEN 2 ELSE 3

\* A front end waiting for its user
Sessao(frente, entradas) ==
    [frente |-> frente, pc |-> "entrada", entradas |-> entradas,
     tentativas |-> 0, buffer |-> <<>>]

InitFrente ==
    /\ circuito = CircuitoDeMain
    /\ Inicio
    /\ correntes_fase = <<>>
    /\ correntes_linha = <<>>
    /\ objetos = <<>>
    /\ sys_stdout = Terminal
    /\ \/ execucoes = Sessao("main", <<>>)
       \/ \E e \in EntradasDoPainel : execucoes = Sessao("painel", e)

\* The menu is given a line it does not accept and asks again
MenuRecusa ==
    /\ execucoes.frente = "main"
    /\ execucoes.pc = "entrada"
    /\ execucoes.tentativas < MaxTentativas
    /\ \E texto \in LinhasRecusadas :
          saida' = Append(saida,
                          <<IF int(texto) = 0
                            THEN "Entrada invalida. Por favor, digite um numero."
                            ELSE "Opcao invalida. Escolha 1, 2 ou 3.", Zero>>)
    /\ execucoes' = [execucoes EXCEPT !.tentativas = @ + 1]
    /\ UNCHANGED <<circuito, op, ret, antes, hist, correntes_fase, correntes_linha, objetos, sys_stdout>>

\* The menu is given 1, 2 or 3: main() builds its Circuito, prints it and
\* runs the analysis chosen
MenuEscolhe ==
    /\ execucoes.frente = "main"
    /\ execucoes.pc = "entrada"
    /\ \E texto \in {"1", "2", "3"} :
       \E feito \in {Despacha(int(texto), CircuitoDeMain)} :
          /\ op' = feito.op
          /\ ret' = feito.ret
          /\ saida' = saida \o <<<<"Dados do Circuito Trifasico", Zero>>>> \o feito.saida
          /\ objetos' = <<feito.circuito>>
    /\ execucoes' = [execucoes EXCEPT !.pc = "fim"]
    /\ UNCHANGED <<circuito, antes, hist, correntes_fase, correntes_linha, sys_stdout>>

\* Calcular is pressed: the form builds its Circuito and captures what the
\* analysis selected prints; the text is shown unless the analysis raised
Calcular ==
    /\ execucoes.frente = "painel"
    /\ execucoes.pc = "entrada"
    /\ \E construido \in {CircuitoDoPainel(execucoes.entradas)} :
       \E feito \in {Despacha(Escolha(execucoes.entradas.tipo_circuito), construido)} :
          /\ op' = feito.op
          /\ ret' = feito.ret
          /\ saida' = IF IsRaise(feito.ret) THEN <<>> ELSE feito.saida
          /\ objetos' = <<feito.circuito>>
          /\ execucoes' = [execucoes EXCEPT !.pc = "fim", !.buffer = feito.saida]
    /\ UNCHANGED <<circuito, antes, hist, correntes_fase, correntes_linha, sys_stdout>>

NextFrente ==
    \/ MenuRecusa
    \/ MenuEscolhe
    \/ Calcular

SpecFrente == InitFrente /\ [][NextFrente]_vars

----------------------------------------------------------------------------

(* capturar_saida: two captures under way at once *)

\* The two captures, each of a script run of the form in its own thread of
\* the one process; capture r writes to the io.StringIO objetos[r]
Capturas == {1, 2}

\* The k-th line the function of capture r prints
LinhaDe(r, k) == <<r, k>>

\* What the function of capture r prints in all when it prints n lines
TextoDe(r, n) == [k \in 1..n |-> LinhaDe(r, k)]

\* A call capturar_saida(func) not yet started: func prints `linhas` lines
\* and then returns or, when levanta, raises
Captura(linhas, levanta) ==
    [pc |-> "inicio", linhas |-> linhas, levanta |-> levanta,
     old_targets |-> <<>>, impressas |-> 0, retorno |-> <<>>]

InitCaptura ==
    /\ circuito = CircuitoDeMain
    /\ Inicio
    /\ correntes_fase = <<>>
    /\ correntes_linha = <<>>
    /\ objetos = <<<<>>, <<>>>>
    /\ sys_stdout = Terminal
    /\ \E n1 \in 0..MaxLinhas, n2 \in 0..MaxLinhas, l1 \in BOOLEAN, l2 \in BOOLEAN :
          execucoes = <<Captura(n1, l1), Captura(n2, l2)>>

\* buffer = io.StringIO() and redirect_stdout.__enter__: the current
\* sys.stdout is kept in _old_targets and the buffer takes its place
Entra(r) ==
    /\ execucoes[r].pc = "inicio"
    /\ objetos' = [objetos EXCEPT ![r] = <<>>]
    /\ execucoes' = [execucoes EXCEPT ![r].pc = "dentro",
                                      ![r].old_targets = <<sys_stdout>>]
    /\ sys_stdout' = r
    /\ UNCHANGED <<circuito, op, ret, saida, antes, hist, correntes_fase, correntes_linha>>

\* A print() of func: the line goes to the stream sys.stdout is at the call
Imprime(r) ==
    /\ execucoes[r].pc = "dentro"
    /\ execucoes[r].impressas < execucoes[r].linhas
    /\ execucoes' = [execucoes EXCEPT ![r].impressas = @ + 1]
    /\ IF sys_stdout = Terminal
       THEN /\ saida' = Append(saida, LinhaDe(r, execucoes[r].impressas + 1))
            /\ UNCHANGED objetos
       ELSE /\ objetos' = [objetos EXCEPT
                             ![sys_stdout] = Append(@, LinhaDe(r, execucoes[r].impressas + 1))]
            /\ UNCHANGED saida
    /\ UNCHANGED <<circuito, op, ret, antes, hist, correntes_fase, correntes_linha, sys_stdout>>

\* func returns or raises and redirect_stdout.__exit__ puts the stream kept
\* in _old_targets back; an exception of func leaves capturar_saida
Sai(r) ==
    /\ execucoes[r].pc = "dentro"
    /\ execucoes[r].impressas = execucoes[r].linhas
    /\ sys_stdout' = execucoes[r].old_targets[1]
    /\ execucoes' = [execucoes EXCEPT ![r].old_targets = <<>>,
                                      ![r].pc = IF execucoes[r].levanta
                                                THEN "fim" ELSE "fora"]
    /\ UNCHANGED <<circuito, op, ret, saida, antes, hist, correntes_fase, correntes_linha, objetos>>

\* return buffer.getvalue()
Retorna(r) ==
    /\ execucoes[r].pc = "fora"
    /\ execucoes' = [execucoes EXCEPT ![r].pc = "fim", ![r].retorno = objetos[r]]
    /\ UNCHANGED <<circuito, op, ret, saida, antes, hist, correntes_fase, correntes_linha, objetos, sys_stdout>>

NextCaptura ==
    \E r \in Capturas :
        \/ Entra(r)
        \/ Imprime(r)
        \/ Sai(r)
        \/ Retorna(r)

SpecCaptura == InitCaptura /\ [][NextCaptura]_vars

----------------------------------------------------------------------------

(* Properties of the phase currents *)

\* The neutral impedances a circuit is compared under
ZNeutro == {Zero, j}

\* The circuit the last call ran on, with another neutral impedance
ComZn(zn) == [antes EXCEPT !.zn = zn]

\* C1: whenever the line impedance plus the load impedance of phase X is
\* zero, correnteFaseX returns the message that names phase X as the one whose
\* total impedance is zero; it returns no number (and raises nothing).
C1_TotalNuloDevolveMensagem ==
    /\ (op = "correnteFaseA" /\ CIsZero(CAdd(antes.za_linha, antes.za_carga)))
           => ret = Str("A")
    /\ (op = "correnteFaseB" /\ CIsZero(CAdd(antes.zb_linha, antes.zb_carga)))
           => ret = Str("B")
    /\ (op = "correnteFaseC" /\ CIsZero(CAdd(antes.zc_linha, antes.zc_carga)))
           => ret = Str("C")

\* C2: on a 3-wire circuit whose three total impedances are nonzero and whose
\* reciprocals do not sum to zero, correnteFaseX returns
\* Vx/Ztot_X - Vn'n/Ztot_X, whatever the neutral impedance is.
C2_CorrenteTresFios ==
    (/\ antes.fios = 3
     /\ ~AlgumZtotNulo(antes)
     /\ ~CIsZero(DenominadorVn(antes)))
    => /\ op = "correnteFaseA" =>
            ret = Val(CSub(CDiv(antes.va, ZtotA(antes)),
                           CDiv(calcula_V_nl_n(antes).v, ZtotA(antes))))
       /\ op = "correnteFaseB" =>
            ret = Val(CSub(CDiv(antes.vb, ZtotB(antes)),
                           CDiv(calcula_V_nl_n(antes).v, ZtotB(antes))))
       /\ op = "correnteFaseC" =>
            ret = Val(CSub(CDiv(antes.vc, ZtotC(antes)),
                           CDiv(calcula_V_nl_n(antes).v, ZtotC(antes))))

\* C3: on a 4-wire circuit whose three total impedances are nonzero and whose
\* neutral current is defined (1 + Zn/Ztot_a + Zn/Ztot_b + Zn/Ztot_c # 0),
\* correnteFaseX returns Vx/Ztot_X - In*Zn/Ztot_X; nothing else has to be
\* defined.
C3_CorrenteQuatroFios ==
    (/\ antes.fios = 4
     /\ ~AlgumZtotNulo(antes)
     /\ ~CIsZero(DenominadorIn(antes)))
    => /\ op = "correnteFaseA" =>
            ret = Val(CSub(CDiv(antes.va, ZtotA(antes)),
                           CDiv(CMul(calcula_I_n(antes).v, antes.zn), ZtotA(antes))))
       /\ op = "correnteFaseB" =>
            ret = Val(CSub(CDiv(antes.vb, ZtotB(antes)),
                           CDiv(CMul(calcula_I_n(antes).v, antes.zn), ZtotB(antes))))
       /\ op = "correnteFaseC" =>
            ret = Val(CSub(CDiv(antes.vc, ZtotC(antes)),
                           CDiv(CMul(calcula_I_n(antes).v, antes.zn), ZtotC(antes))))

\* C4: on a 3-wire circuit the neutral impedance is unused: every phase
\* current, every load voltage and calcula_Y give, on the circuit with any
\* other neutral impedance, the outcome they gave (same value or same
\* failure, same printed lines).
C4_ZnSemEfeitoTresFios ==
    antes.fios = 3 =>
        \A zn \in ZNeutro :
            /\ op = "correnteFaseA" => correnteFaseA(ComZn(zn)) = ret
            /\ op = "correnteFaseB" => correnteFaseB(ComZn(zn)) = ret
            /\ op = "correnteFaseC" => correnteFaseC(ComZn(zn)) = ret
            /\ op = "tensaoCargaZa" => tensaoCargaZa(ComZn(zn)) = ret
            /\ op = "tensaoCargaZb" => tensaoCargaZb(ComZn(zn)) = ret
            /\ op = "tensaoCargaZc" => tensaoCargaZc(ComZn(zn)) = ret
            /\ op = "calcula_Y" =>
                   calcula_Y(ComZn(zn)) = [ret |-> ret, saida |-> saida]

\* C5: a wire count that is neither 3 nor 4 is rejected: a Circuito that has
\* one is never the subject of a call, and no call on it returns a number.
C5_FiosInvalidoRejeitado ==
    antes.fios \notin {3, 4} => (op = "__init__" /\ ~IsVal(ret))

----------------------------------------------------------------------------
(* Properties of the two load conversions *)

SomaDe(Z) == CAdd(CAdd(Z[1], Z[2]), Z[3])

\* The star equivalent of the delta loads Z = <<Zab, Zbc, Zca>>
EstrelaDe(Z) ==
    <<CDiv(CMul(Z[1], Z[3]), SomaDe(Z)),
      CDiv(CMul(Z[2], Z[1]), SomaDe(Z)),
      CDiv(CMul(Z[3], Z[2]), SomaDe(Z))>>

\* The loads stored once the k-th successful conversion returned
CargasApos(k) == IF k = Len(hist) THEN Cargas(circuito) ELSE hist[k + 1][2]

\* C6: for loads that are nonzero and do not sum to zero, converteCargaDY
\* followed by converteCargaYD on the same circuit leaves the three loads as
\* they were before the two calls.
C6_IdaEVolta ==
    \A k \in 1..(Len(hist) - 1) :
        (/\ hist[k][1] = "converteCargaDY"
         /\ hist[k + 1][1] = "converteCargaYD"
         /\ \A i \in 1..3 : ~CIsZero(hist[k][2][i])
         /\ ~CIsZero(SomaDe(hist[k][2])))
        => CargasApos(k + 1) = hist[k][2]

\* A round trip of three different loads, through star loads that differ
\* from them
C6_IdaEVoltaFeita ==
    /\ Len(hist) = 2
    /\ op = "converteCargaYD" /\ ret = None
    /\ hist[1][1] = "converteCargaDY"
    /\ hist[2][1] = "converteCargaYD"
    /\ hist[1][2][1] # hist[1][2][2]
    /\ hist[1][2][2] # hist[1][2][3]
    /\ hist[2][2] # hist[1][2]
    /\ Cargas(circuito) = hist[1][2]

\* C7: converteCargaDY stores Za = Zab*Zca/S, Zb = Zbc*Zab/S, Zc = Zca*Zbc/S
\* with S = Zab + Zbc + Zca, all three computed from the loads stored before
\* the call, and every later operation that is no conversion finds them so.
C7_EstrelaDosValoresAnteriores ==
    (Len(hist) > 0 /\ hist[Len(hist)][1] = "converteCargaDY")
        => Cargas(circuito) = EstrelaDe(hist[Len(hist)][2])

\* A solver running on loads that converteCargaDY replaced
C7_ConvertidoESolucionado ==
    /\ Len(hist) > 0
    /\ hist[Len(hist)][1] = "converteCargaDY"
    /\ op = "tensaoLinhaZab" /\ IsVal(ret)
    /\ Cargas(circuito) = EstrelaDe(hist[Len(hist)][2])
    /\ Cargas(circuito)[2] # CDiv(CMul(hist[Len(hist)][2][2], Cargas(circuito)[1]),
                                  SomaDe(hist[Len(hist)][2]))
    /\ Cargas(circuito) # hist[Len(hist)][2]

\* C8: converteCargaDY raises ZeroDivisionError exactly when the three stored
\* loads sum to zero, and returns for every other triple.
C8_DYFalhaSseSomaNula ==
    op = "converteCargaDY" =>
        IF CIsZero(SomaDe(Cargas(antes)))
        THEN ret = ZeroDivisionError /\ circuito = antes
        ELSE ret = None

\* converteCargaDY raising on three nonzero loads that sum to zero
C8_DYFalhou ==
    /\ op = "converteCargaDY"
    /\ ret = ZeroDivisionError
    /\ \A i \in 1..3 : ~CIsZero(Cargas(antes)[i])
    /\ CIsZero(SomaDe(Cargas(antes)))

\* C9: converteCargaYD raises ZeroDivisionError exactly when at least one of
\* the three stored loads is zero, and returns when all three are nonzero.
C9_YDFalhaSseCargaNula ==
    op = "converteCargaYD" =>
        IF \E i \in 1..3 : CIsZero(Cargas(antes)[i])
        THEN ret = ZeroDivisionError /\ circuito = antes
        ELSE ret = None

\* converteCargaYD raising on loads of which exactly one is zero and which
\* do not sum to zero
C9_YDFalhou ==
    /\ op = "converteCargaYD"
    /\ ret = ZeroDivisionError
    /\ CIsZero(antes.zb_carga)
    /\ ~CIsZero(antes.za_carga) /\ ~CIsZero(antes.zc_carga)
    /\ ~CIsZero(SomaDe(Cargas(antes)))

----------------------------------------------------------------------------
(* Frame *)

\* The operations that only read the Circuito
Leituras ==
    {"calcula_I_n", "calcula_V_nl_n",
     "correnteFaseA", "correnteFaseB", "correnteFaseC",
     "tensaoCargaZa", "tensaoCargaZb", "tensaoCargaZc",
     "tensaoLinhaZab", "tensaoLinhaZbc", "tensaoLinhaZca",
     "calculaPotencia", "calcula_Y", "calcula_D_equilibrado"}

\* The fields no operation writes
Fixos(c) == <<c.fios, c.va, c.vb, c.vc, c.za_linha, c.zb_linha, c.zc_linha, c.zn>>

\* C10: the fields of a Circuito change only during converteCargaDY or
\* converteCargaYD, and then only the three loads: the neutral quantities,
\* the phase-current, load-voltage and line-voltage solvers, the power
\* solver, calcula_Y and calcula_D_equilibrado leave every field as it was,
\* and fios, the source voltages, the line impedances and zn never change.
C10_Quadro ==
    [][/\ op' \in Leituras => circuito' = circuito
       /\ circuito' # circuito =>
              \/ op' \in {"converteCargaDY", "converteCargaYD"}
              \/ op' = "calcula_D_deseq" /\ circuito' = converteCargaDY(circuito)
       /\ Fixos(circuito') = Fixos(circuito)]_vars

\* calcula_D_equilibrado having printed its report on a circuit with line
\* impedances whose loads a conversion had replaced, the Circuito as before
C10_OrquestradoSemEfeito ==
    /\ op = "calcula_D_equilibrado"
    /\ ret = None /\ Len(saida) > 0
    /\ Len(hist) > 0
    /\ ~CIsZero(circuito.za_linha)
    /\ circuito = antes

----------------------------------------------------------------------------
(* Properties of the unbalanced delta orchestrator *)

\* The value printed under a label by the last call
Impresso(rotulo) == saida[CHOOSE i \in 1..Len(saida) : saida[i][1] = rotulo][2]

\* The voltage at a load corner: the source voltage less the drop of the
\* printed line current on the line impedance
TensaoNoCanto(v, rotulo, z_linha) == CSub(v, CMul(Impresso(rotulo), z_linha))

\* C11: calcula_D_deseq saves the three delta loads before it converts the
\* stored loads to their star equivalent, and each branch current it reports
\* is the difference of two corner voltages divided by the load saved before
\* the conversion: Iab = Va'b'/Zab, Ibc = Vb'c'/Zbc, Ica = Vc'a'/Zca with Zab,
\* Zbc, Zca the loads the Circuito held when the call started.
C11_CorrenteDeRamoPelaCargaOriginal ==
    (op = "calcula_D_deseq" /\ ret = None) =>
        /\ Cargas(circuito) = EstrelaDe(Cargas(antes))
        /\ Impresso("Va'b'") = CSub(TensaoNoCanto(antes.va, "Ia", antes.za_linha),
                                    TensaoNoCanto(antes.vb, "Ib", antes.zb_linha))
        /\ Impresso("Vb'c'") = CSub(TensaoNoCanto(antes.vb, "Ib", antes.zb_linha),
                                    TensaoNoCanto(antes.vc, "Ic", antes.zc_linha))
        /\ Impresso("Vc'a'") = CSub(TensaoNoCanto(antes.vc, "Ic", antes.zc_linha),
                                    TensaoNoCanto(antes.va, "Ia", antes.za_linha))
        /\ Impresso("Iab") = CDiv(Impresso("Va'b'"), antes.za_carga)
        /\ Impresso("Ibc") = CDiv(Impresso("Vb'c'"), antes.zb_carga)
        /\ Impresso("Ica") = CDiv(Impresso("Vc'a'"), antes.zc_carga)

\* calcula_D_deseq having reported, on a circuit with line impedances, branch
\* currents that differ from what the converted loads would give
C11_RamosReportados ==
    /\ op = "calcula_D_deseq" /\ ret = None
    /\ ~CIsZero(antes.za_linha)
    /\ Cargas(circuito) # Cargas(antes)
    /\ ~CIsZero(Impresso("Va'b'"))
    /\ Impresso("Iab") = CDiv(Impresso("Va'b'"), antes.za_carga)
    /\ Impresso("Iab") # CDiv(Impresso("Va'b'"), circuito.za_carga)

----------------------------------------------------------------------------
(* Properties of the line currents *)

\* The three line currents have all been computed
LinhasCalculadas == \A i \in 1..3 : correntes_linha[i] # Pendente

\* The exact differences the line currents stand for: I_AB - I_CA,
\* I_BC - I_AB and I_CA - I_BC, part p (1 real, 2 imaginary)
DiferencaExata(i, p) ==
    RSub(correntes_fase[i][p], correntes_fase[((i + 1) % 3) + 1][p])

\* The sum of part p of the three line currents returned
SomaLinhas(p) ==
    RAdd(RAdd(correntes_linha[1][p], correntes_linha[2][p]), correntes_linha[3][p])

SomaModulosExatos(p) ==
    RAdd(RAdd(RAbs(DiferencaExata(1, p)), RAbs(DiferencaExata(2, p))),
         RAbs(DiferencaExata(3, p)))

\* x times 2^MantBits
VezesPrecisao(x) == R(x[1] * 2^MantBits, x[2])

----------------------------------------------------------------------------
(* Properties of the power solver *)

\* The complex power of tensoes and correntes, all phases
PotenciaComplexa(tensoes, correntes) ==
    CAdd(CAdd(CMul(tensoes[1], CConj(correntes[1])),
              CMul(tensoes[2], CConj(correntes[2]))),
         CMul(tensoes[3], CConj(correntes[3])))

\* The totals d of a dictionary are those of the complex power S
TotaisDe(d, S) ==
    /\ d.S_total = S
    /\ d.P_total = R(S[1], S[3])
    /\ d.Q_total = R(S[2], S[3])
    /\ d.S_aparente_total = [modulo_de |-> S]

\* The load voltages and the phase currents calcula_Y printed
TensoesImpressas == <<Impresso("Va'n'"), Impresso("Vb'n'"), Impresso("Vc'n'")>>
CorrentesImpressas == <<Impresso("Ia"), Impresso("Ib"), Impresso("Ic")>>

\* C13: the total complex power is the sum over the phases of V times the
\* conjugate of I, the total active and reactive powers are its real and
\* imaginary parts, and the total apparent power is the modulus of that sum
\* (not the sum of the moduli of the phases): on a direct call with the source
\* voltages, and in the dictionary calcula_Y prints with the load voltages
\* and phase currents it prints.
C13_PotenciaTotal ==
    /\ (op = "calculaPotencia" /\ ret.t = "dict") =>
          \E correntes \in CorrentesPotencia :
              TotaisDe(ret.v, PotenciaComplexa(<<antes.va, antes.vb, antes.vc>>,
                                               correntes))
    /\ (op = "calcula_Y" /\ ret = None) =>
          TotaisDe(Impresso("Potências"),
                   PotenciaComplexa(TensoesImpressas, CorrentesImpressas))

\* calcula_Y reported powers with active and reactive totals that are not
\* zero, from three different phase powers
C13_PotenciaReportada ==
    /\ op = "calcula_Y" /\ ret = None
    /\ Impresso("Potências").P_total[1] # 0
    /\ Impresso("Potências").Q_total[1] # 0
    /\ Impresso("Potências").S_fases[1] # Impresso("Potências").S_fases[2]
    /\ Impresso("Potências").S_fases[2] # Impresso("Potências").S_fases[3]

\* The dictionaries of calculaPotencia at hand: the one a direct call
\* returned, and those an orchestrator printed
Dicionarios ==
    (IF op = "calculaPotencia" /\ ret.t = "dict" THEN {ret.v} ELSE {})
    \cup {saida[i][2] : i \in {k \in 1..Len(saida) : saida[k][1] = "Potências"}}

\* The square of the real x, and of the modulus of the complex z
Quadrado(x) == R(x[1] * x[1], x[2] * x[2])
ModuloQuadrado(z) == R(z[1] * z[1] + z[2] * z[2], z[3] * z[3])

\* fp is a quotient P / |S| of a P no larger than |S| in magnitude, |S| > 0
EntreMenosUmEUm(fp) ==
    /\ ~fp.nan /\ ~fp.inf
    /\ ~CIsZero(fp.S_aparente.modulo_de)
    /\ RLeq(Quadrado(fp.P), ModuloQuadrado(fp.S_aparente.modulo_de))

\* C14: when the total complex power is not zero, the power factor
\* P_total / |S_total| is a number of [-1, 1].
C14_FatorDePotenciaLimitado ==
    \A d \in Dicionarios : ~CIsZero(d.S_total) => EntreMenosUmEUm(d.fp)

\* Two power factors reported by an orchestrator, one positive and below 1,
\* one negative
C14_FatoresReportados ==
    /\ ret.t = "None"
    /\ \E d \in Dicionarios :
          /\ d.fp.sinal = 1
          /\ Quadrado(d.fp.P) # ModuloQuadrado(d.fp.S_aparente.modulo_de)
    /\ \E d \in Dicionarios : d.fp.sinal = -1 /\ ~CIsZero(d.S_total)

\* C15: the type of the power factor is decided by the sign of the total
\* reactive power alone: lagging (inductive) when it is positive, leading
\* (capacitive) when it is negative, in phase when it is zero; every
\* dictionary carries exactly one of the three.
C15_TipoPeloSinalDeQ ==
    \A d \in Dicionarios :
        /\ d.Q_total = R(d.S_total[2], d.S_total[3])
        /\ d.tipo_fp \in {"atrasado (indutivo).", "adiantado (capacitivo).", "em fase."}
        /\ d.tipo_fp = "atrasado (indutivo)." <=> d.Q_total[1] > 0
        /\ d.tipo_fp = "adiantado (capacitivo)." <=> d.Q_total[1] < 0
        /\ d.tipo_fp = "em fase." <=> d.Q_total[1] = 0

\* An orchestrator reported a lagging and a leading total, the lagging one
\* with a negative active power or the leading one with a positive one
C15_TiposReportados ==
    /\ ret.t = "None"
    /\ \E d \in Dicionarios : d.tipo_fp = "atrasado (indutivo)."
    /\ \E d \in Dicionarios : d.tipo_fp = "adiantado (capacitivo)."
    /\ \E d \in Dicionarios :
          \/ d.tipo_fp = "atrasado (indutivo)." /\ d.P_total[1] < 0
          \/ d.tipo_fp = "adiantado (capacitivo)." /\ d.P_total[1] > 0

\* C16: when the total apparent power is zero, calculaPotencia fails: it
\* does not return a dictionary whose power factor is nan or an infinity.
C16_PotenciaAparenteNulaFalha ==
    \A d \in Dicionarios :
        CIsZero(d.S_aparente_total.modulo_de) => (~d.fp.nan /\ ~d.fp.inf)

----------------------------------------------------------------------------
(* Properties of balanced circuits *)

\* The square of the modulus of (a + b*w)/d
ModuloQuadradoOmega(z) == R(z[1] * z[1] - z[1] * z[2] + z[2] * z[2], z[3] * z[3])

\* x and y have the same modulus and y is x turned by 120 degrees, forwards
\* (by w) or backwards (by w*w)
DefasadosDe120(x, y, giro) ==
    /\ y = MulOmega(giro, x)
    /\ ModuloQuadradoOmega(x) = ModuloQuadradoOmega(y)
    /\ ~CIsZero(x)

\* The source of c is balanced, vb and vc being va turned by giro and by its
\* conjugate: equal moduli, 120 degrees apart
FonteEquilibrada(c, giro) ==
    /\ giro \in {Omega, Omega2}
    /\ DefasadosDe120(c.va, c.vb, giro)
    /\ DefasadosDe120(c.vb, c.vc, giro)
    /\ DefasadosDe120(c.vc, c.va, giro)
    /\ CIsZero(CAdd(CAdd(c.va, c.vb), c.vc))

\* Equal line impedances, equal loads, and a total that is not zero
ImpedanciasIguais(c) ==
    /\ c.za_linha = c.zb_linha /\ c.zb_linha = c.zc_linha
    /\ c.za_carga = c.zb_carga /\ c.zb_carga = c.zc_carga
    /\ ~CIsZero(CAdd(c.za_linha, c.za_carga))

FontesDe(c) == <<c.va, c.vb, c.vc>>

Chamada(r) == r # NaoChamada

\* C17: on a 4-wire circuit with a balanced source, equal lines, equal loads
\* of nonzero total and no neutral impedance, calcula_I_n returns zero and
\* each phase current is the phase voltage over the total impedance, so that
\* the three have the same modulus and are 120 degrees apart.
C17_EstrelaEquilibrada ==
    \A giro \in {Omega, Omega2} :
        (/\ circuito.fios = 4
         /\ FonteEquilibrada(circuito, giro)
         /\ ImpedanciasIguais(circuito)
         /\ circuito.zn = Zero)
        => /\ op = "calcula_I_n" => ret = Val(Zero)
           /\ \A i \in 1..3 :
                 Chamada(correntes_fase[i]) =>
                    /\ IsVal(correntes_fase[i])
                    /\ MulOmega(correntes_fase[i].v,
                                CAdd(circuito.za_linha, circuito.za_carga))
                         = FontesDe(circuito)[i]
           /\ \A i \in 1..3 :
                 (Chamada(correntes_fase[i]) /\ Chamada(correntes_fase[(i % 3) + 1])) =>
                    DefasadosDe120(correntes_fase[i].v,
                                   correntes_fase[(i % 3) + 1].v, giro)

\* A balanced 4-wire circuit with a total impedance that is not real, its
\* neutral current and its three phase currents computed
C17_EstrelaEquilibradaResolvida ==
    /\ circuito.fios = 4
    /\ \E giro \in {Omega, Omega2} : FonteEquilibrada(circuito, giro)
    /\ ImpedanciasIguais(circuito)
    /\ circuito.zn = Zero
    /\ CAdd(circuito.za_linha, circuito.za_carga)[2] # 0
    /\ op = "calcula_I_n"
    /\ \A i \in 1..3 : Chamada(correntes_fase[i])

\* What a line current is of its branch current when the branches follow one
\* another by giro: 1 - giro*giro, of modulus sqrt(3) and argument 30 degrees
\* (behind for giro = w*w, the positive sequence; ahead for giro = w)
TrintaGraus(giro) == CSub(One, MulOmega(giro, giro))

\* The branch whose current each line-current function subtracts from
RamoDe == [correnteLinhaA |-> 1, correnteLinhaB |-> 2, correnteLinhaC |-> 3]

\* C18: with a balanced source, equal lines and equal branch impedances, the
\* three branch currents have the same modulus and are 120 degrees apart, and
\* each line current is its branch current turned by 30 degrees and scaled
\* by sqrt(3): its squared modulus is three times that of the branch current.
C18_TrianguloEquilibrado ==
    \A giro \in {Omega, Omega2} :
        (FonteEquilibrada(circuito, giro) /\ ImpedanciasIguais(circuito))
        => /\ ModuloQuadradoOmega(TrintaGraus(giro)) = R(3, 1)
           /\ \A i \in 1..3 :
                 (Chamada(correntes_fase[i]) /\ Chamada(correntes_fase[(i % 3) + 1])) =>
                    DefasadosDe120(correntes_fase[i].v,
                                   correntes_fase[(i % 3) + 1].v, giro)
           /\ \A nome \in DOMAIN RamoDe :
                 (op = nome /\ Chamada(correntes_fase[RamoDe[nome]])) =>
                    /\ IsVal(ret)
                    /\ ret.v = MulOmega(correntes_fase[RamoDe[nome]].v, TrintaGraus(giro))
                    /\ ModuloQuadradoOmega(ret.v)
                         = R(3 * ModuloQuadradoOmega(correntes_fase[RamoDe[nome]].v)[1],
                             ModuloQuadradoOmega(correntes_fase[RamoDe[nome]].v)[2])

\* A balanced 3-wire circuit with a total impedance that is not real, its
\* three branch currents and the line current of A computed
C18_TrianguloEquilibradoResolvido ==
    /\ circuito.fios = 3
    /\ \E giro \in {Omega, Omega2} : FonteEquilibrada(circuito, giro)
    /\ ImpedanciasIguais(circuito)
    /\ CAdd(circuito.za_linha, circuito.za_carga)[2] # 0
    /\ op = "correnteLinhaA"
    /\ \A i \in 1..3 : Chamada(correntes_fase[i])

----------------------------------------------------------------------------
(* Properties of two analyses under way at once *)

\* What the orchestrator gives when called on c with nothing else under way,
\* and the Circuito it leaves
Sozinha(tipo, c) ==
    IF tipo = "calcula_D_deseq" THEN calcula_D_deseq(c)
    ELSE IF tipo = "calcula_Y" THEN calcula_Y(c) @@ [circuito |-> c]
    ELSE calcula_D_equilibrado(c) @@ [circuito |-> c]

\* C19: two analyses, each on the Circuito built for it, give under every
\* interleaving of their steps what each gives when it runs alone: the same
\* outcome, the same reported quantities, the same Circuito left.
C19_IntercaladasComoEmSequencia ==
    \A r \in Execucoes :
        execucoes[r].pc = "fim" =>
            /\ execucoes[r].ret = Sozinha(execucoes[r].tipo, execucoes[r].inicial).ret
            /\ execucoes[r].saida = Sozinha(execucoes[r].tipo, execucoes[r].inicial).saida
            /\ objetos[r] = Sozinha(execucoes[r].tipo, execucoes[r].inicial).circuito

\* Two unbalanced-delta analyses of different circuits, both complete, each
\* having taken a step while the other was between its first and last
C19_IntercaladasCompletas ==
    /\ \A r \in Execucoes :
          /\ execucoes[r].pc = "fim"
          /\ execucoes[r].tipo = "calcula_D_deseq"
          /\ execucoes[r].ret.t = "None"
          /\ execucoes[r].entre
    /\ execucoes[1].inicial # execucoes[2].inicial

----------------------------------------------------------------------------
(* Kirchhoff's current law *)

\* The three values sum to zero
SomaNula(I) == CIsZero(CAdd(CAdd(I[1], I[2]), I[3]))

\* C20: on a 3-wire circuit on which the three phase currents are defined,
\* they sum to zero: the phase currents calcula_Y and calcula_D_deseq report
\* (the latter on the converted circuit), the branch currents
\* calcula_D_equilibrado reports, and the current a direct call returns with
\* those of the other two phases.
C20_CorrentesDeFaseSomamZero ==
    circuito.fios = 3 =>
        /\ (op \in {"calcula_Y", "calcula_D_deseq"} /\ ret.t = "None") =>
              SomaNula(CorrentesImpressas)
        /\ (op = "calcula_D_equilibrado" /\ ret.t = "None") =>
              SomaNula(<<Impresso("Ia'b'"), Impresso("Ib'c'"), Impresso("Ic'a'")>>)
        /\ (op = "correnteFaseA" /\ IsVal(ret)) =>
              /\ IsVal(correnteFaseB(antes)) /\ IsVal(correnteFaseC(antes))
              /\ SomaNula(<<ret.v, correnteFaseB(antes).v, correnteFaseC(antes).v>>)

\* calcula_Y reported three different nonzero phase currents of a 3-wire
\* circuit with lines
C20_TresCorrentesReportadas ==
    /\ circuito.fios = 3
    /\ op = "calcula_Y" /\ ret.t = "None"
    /\ ~CIsZero(circuito.za_linha)
    /\ \A i \in 1..3 : ~CIsZero(CorrentesImpressas[i])
    /\ CorrentesImpressas[1] # CorrentesImpressas[2]
    /\ CorrentesImpressas[2] # CorrentesImpressas[3]

\* The sum of three values
SomaTres(I) == CAdd(CAdd(I[1], I[2]), I[3])

\* C21: on a 4-wire circuit on which the three phase currents are defined,
\* they sum to the neutral current: the phase currents calcula_Y reports sum
\* to the In it reports, and the value calcula_I_n returns is the sum of the
\* values of the three phase-current functions.
C21_CorrentesDeFaseSomamIn ==
    circuito.fios = 4 =>
        /\ (op = "calcula_Y" /\ ret.t = "None") =>
              SomaTres(CorrentesImpressas) = Impresso("In")
        /\ (op = "calcula_I_n" /\ IsVal(ret) /\ IsVal(correnteFaseA(antes))
              /\ IsVal(correnteFaseB(antes)) /\ IsVal(correnteFaseC(antes))) =>
              SomaTres(<<correnteFaseA(antes).v, correnteFaseB(antes).v,
                         correnteFaseC(antes).v>>) = ret.v

\* calcula_Y reported a neutral current that is not zero, through a neutral
\* impedance that is not zero, on a 4-wire circuit
C21_CorrenteDeNeutroReportada ==
    /\ circuito.fios = 4
    /\ op = "calcula_Y" /\ ret.t = "None"
    /\ ~CIsZero(circuito.zn)
    /\ ~CIsZero(Impresso("In"))
    /\ \A i \in 1..3 : ~CIsZero(CorrentesImpressas[i])

----------------------------------------------------------------------------
(* Properties of the report of the unbalanced delta orchestrator *)

\* The branch currents calcula_D_deseq printed
RamosImpressos == <<Impresso("Iab"), Impresso("Ibc"), Impresso("Ica")>>

\* C22: on a 3-wire circuit with nonzero branch impedances, the line currents
\* calcula_D_deseq computes from the star equivalent are those of the branch
\* currents it recovers: Ia = Iab - Ica, Ib = Ibc - Iab and Ic = Ica - Ibc.
C22_LinhasConcordamComRamos ==
    (/\ op = "calcula_D_deseq" /\ ret.t = "None"
     /\ antes.fios = 3
     /\ \A i \in 1..3 : ~CIsZero(Cargas(antes)[i]))
    => /\ CorrentesImpressas[1] = CSub(RamosImpressos[1], RamosImpressos[3])
       /\ CorrentesImpressas[2] = CSub(RamosImpressos[2], RamosImpressos[1])
       /\ CorrentesImpressas[3] = CSub(RamosImpressos[3], RamosImpressos[2])

\* calcula_D_deseq reported three different nonzero branch currents through
\* three different branch impedances, behind lines, on a 3-wire circuit
C22_RamosELinhasReportados ==
    /\ op = "calcula_D_deseq" /\ ret.t = "None"
    /\ antes.fios = 3
    /\ ~CIsZero(antes.za_linha)
    /\ antes.za_carga # antes.zb_carga /\ antes.zb_carga # antes.zc_carga
    /\ antes.za_carga # antes.zc_carga
    /\ \A i \in 1..3 : ~CIsZero(RamosImpressos[i])
    /\ RamosImpressos[1] # RamosImpressos[2]

\* C23: on a 3-wire circuit, the source power calcula_D_deseq reports (the
\* load total plus the line total) is the power the three sources deliver:
\* the sum over the phases of the source voltage times the conjugate of the
\* line current reported; P and Q are its real and imaginary parts.
C23_PotenciaDaFonte ==
    (op = "calcula_D_deseq" /\ ret.t = "None" /\ antes.fios = 3)
    => /\ Impresso("P fonte").S
            = PotenciaComplexa(<<antes.va, antes.vb, antes.vc>>, CorrentesImpressas)
       /\ Impresso("P fonte").P = R(Impresso("P fonte").S[1], Impresso("P fonte").S[3])
       /\ Impresso("P fonte").Q = R(Impresso("P fonte").S[2], Impresso("P fonte").S[3])

\* calcula_D_deseq reported a source power on a 3-wire circuit whose lines
\* dissipate: line total and load total both not zero
C23_PotenciaDaFonteReportada ==
    /\ op = "calcula_D_deseq" /\ ret.t = "None"
    /\ antes.fios = 3
    /\ ~CIsZero(antes.za_linha)
    /\ ~CIsZero(Impresso("P fonte").S)
    /\ \A i \in 1..Len(saida) :
          saida[i][1] = "Potências" => ~CIsZero(saida[i][2].S_total)

----------------------------------------------------------------------------
(* Failing conversions *)

\* C24: when converteCargaYD or converteCargaDY raises, the three loads are
\* those held before the call: no load is updated by a conversion that fails.
C24_FalhaNaoAlteraCargas ==
    (op \in {"converteCargaYD", "converteCargaDY"} /\ IsRaise(ret))
    => Cargas(circuito) = Cargas(antes)

\* A converteCargaYD that raised on its second division, the first having
\* given a Z_ab that differs from the load of phase A
C24_FalhouDepoisDaPrimeiraDivisao ==
    /\ op = "converteCargaYD" /\ IsRaise(ret)
    /\ ~CIsZero(antes.zc_carga) /\ CIsZero(antes.za_carga)
    /\ ~CIsZero(SomaProdutos(antes))

----------------------------------------------------------------------------
(* Properties of the front ends *)

\* What the analysis a front end ran printed: the form captures it in a
\* buffer, the console shows it after the menu and the circuit data
RelatorioDaFrente == IF execucoes.frente = "painel" THEN execucoes.buffer ELSE saida

\* A line under the label is among those the analysis printed
FrenteImprimiu(rotulo) ==
    \E k \in 1..Len(RelatorioDaFrente) : RelatorioDaFrente[k][1] = rotulo

----------------------------------------------------------------------------
(* Properties of capturar_saida *)

\* Capture r returned a text
Retornou(r) == execucoes[r].pc = "fim" /\ ~execucoes[r].levanta

\* Capture r has ended, by a return or by the exception of its function
Terminou(r) == execucoes[r].pc = "fim"

\* C26: capturar_saida returns exactly the text its function printed, also
\* when two captures run at once: a returned text has no line of the other
\* run and misses none of its own, and once the captures have ended
\* sys.stdout is the stream it was before them.
C26_CapturaExata ==
    /\ \A r \in Capturas :
          Retornou(r) => execucoes[r].retorno = TextoDe(r, execucoes[r].linhas)
    /\ (\A r \in Capturas : Terminou(r)) => sys_stdout = Terminal

============================================================================
